---- MODULE Spec2Model ----
(***************************************************************************)
(* Query execution subsystem of the repository:                            *)
(*   - ComposableGraphQueryEngine (gpt_index/indices/query/                *)
(*     graph_query_engine.py): recursive retrieval and synthesis;          *)
(*   - QueryRunner (gpt_index/indices/query/query_runner.py): config       *)
(*     resolution and the sync / async query paths;                        *)
(*   - PromptHelper (gpt_index/indices/prompt_helper.py): chunk-size       *)
(*     arithmetic, text joins and the text splitter;                       *)
(*   - DocumentStore (gpt_index/docstore.py): adds, lookups, deletes and   *)
(*     the typed dict round trip;                                          *)
(*   - QueryGraphQueryEngine (llama_index/query_engine/                    *)
(*     query_graph_query_engine.py): recursive query over query engines;   *)
(*   - ToolInteractiveReflectionAgentWorker (llama_index/agent/            *)
(*     introspective/reflective/tool_interactive_reflection.py): the chain *)
(*     of critique / correction steps;                                     *)
(*   - DiffPrivateSimpleDatasetPack (llama_index/packs/                    *)
(*     diff_private_simple_dataset/base.py): the per-split completion      *)
(*     calls of one synthetic example;                                     *)
(*   - CondenseQuestionChatEngine (llama_index/chat_engine/                *)
(*     condense_then_query.py): chat, achat and reset over the history.    *)
(* Each subsystem has its own specification (SpecGraph, SpecRunner,        *)
(* SpecPrompt, SpecStore, SpecQueryGraph, SpecReflection, SpecDiffPrivate, *)
(* SpecChat); the variables of the other subsystems stay idle.             *)
(***************************************************************************)
EXTENDS Integers, Sequences, FiniteSets, TLC

VARIABLES
    \* ---- ComposableGraphQueryEngine ----
    graph,              \* name of the ComposableGraph the engine was built on
    custom_retrievers,  \* self._custom_retrievers: set of index ids with a custom retriever
    node_postprocessors, \* self._node_postprocessors: the list given to __init__
    recursive,          \* self._recursive
    stack,              \* call stack of _query_index frames (innermost last)
    calls,              \* chronological log of _query_index / retrieve / synthesize calls
    result,             \* what _query returned to the caller (NoResponse before)
    \* ---- QueryRunner ----
    query_configs,        \* the query_configs list __init__ was given
    type_to_config_dict,  \* self._type_to_config_dict
    id_to_config_dict,    \* self._id_to_config_dict
    runner_transform,     \* self._query_transform
    runner_combiner,      \* self._query_combiner
    qr_pc,                \* position inside query / aquery
    qr_path,              \* "sync" (query) or "async" (aquery)
    qr_input,             \* query_str_or_bundle
    index_struct,         \* the index struct queried
    config,               \* what _get_query_config returned last
    loc,                  \* locals of query / aquery
    qr_log,               \* chronological log of the calls made during the query
    qr_response,          \* the Response returned (NoRunnerResponse before)
    qr_error,             \* the exception raised and where (NoError when none)
    \* ---- PromptHelper ----
    max_input_size,       \* self.max_input_size
    num_output,           \* self.num_output
    embedding_limit,      \* self.embedding_limit (Optional[int])
    ph_op,                \* the PromptHelper method called last ("" before any call)
    ph_args,              \* its arguments
    ph_result,            \* the value it returned
    ph_error,             \* the exception it raised ("" when none)
    max_chunk_overlap,    \* self.max_chunk_overlap
    node_list,            \* the node texts get_text_from_nodes / get_numbered_... was given
    prompt,               \* the prompt it was given: None, or its number of tokens
    chunk_size,           \* the local chunk_size of the method called last (Optional[int])
    ph_text,              \* the text returned
    ph_splitter,          \* the TokenTextSplitter returned (NoSplitter before)
    \* ---- DocumentStore ----
    docs,                 \* self.docs: doc_id -> document or index struct
    docs_before,          \* self.docs as the call made last found it
    ds_op,                \* the DocumentStore method called last ("" before any call)
    ds_args,              \* its arguments
    ds_ret,               \* the document it returned (NoDoc when none)
    ds_error,             \* the exception it raised ("" when none)
    ds_plain,             \* TRUE while every call so far was an add of explicit ids only
    ds_latest,            \* while ds_plain: doc_id -> the document added last under that id
    dumped,               \* the dict serialize_to_dict returned, while the calls after it load it
    loaded,               \* the store the load_from_dict call made last returned
    \* ---- QueryGraphQueryEngine ----
    query_engine_dict,    \* self._query_engine_dict: query id -> kind of query engine
    qg_stack,             \* call stack of _query_rec frames (innermost last)
    qg_calls,             \* chronological log of the retrieve / query / synthesize calls
    qg_result,            \* what _query returned (NoResponse before)
    qg_error,             \* the exception _query raised ("" when none)
    \* ---- ToolInteractiveReflectionAgentWorker ----
    max_iterations,       \* self.max_iterations
    stopping_callable,    \* TRUE when self.stopping_callable is set, FALSE when it is None
    new_memory,           \* task.extra_state["new_memory"]: the roles of its messages
    sources,              \* number of entries of task.extra_state["sources"]
    count,                \* step_state["count"], shared by the steps of one task
    pending,              \* number of steps waiting to be run (the initial or the next step)
    ra_op,                \* the method run last ("" before any)
    ra_verdict,           \* what the stopping callable said of the last critique ("none" if not asked)
    ra_output,            \* the TaskStepOutput returned last (NoOutput when none)
    ra_error,             \* the exception the step raised ("" when none)
    \* ---- DiffPrivateSimpleDatasetPack ----
    num_splits,           \* the num_splits argument of agenerate_dp_synthetic_example
    t_max,                \* the t_max argument: the number of tokens asked for
    dataset_size,         \* len(filtered_simple_dataset.examples)
    dp_pc,                \* where the coroutine stands: "idle", "public", "gather", "returned", "raised"
    iteration,            \* the value of the for loop's counter (0 before the loop)
    split_tasks,          \* split_tasks: per split "scheduled", "in_flight" or "done"
    synthetic_example,    \* synthetic_example: the tokens generated so far
    dp_error,             \* the exception the coroutine raised ("" when none)
    \* ---- CondenseQuestionChatEngine ----
    initial_chat_history, \* the chat_history argument of __init__ (<<>> for None)
    chat_history,         \* self._chat_history: (message, response text) pairs
    chat_calls,           \* the calls made so far, in call order
    chat_error            \* the exception the last call raised ("" when none)

geVars == <<graph, custom_retrievers, node_postprocessors, recursive, stack, calls, result>>

runnerState ==
    <<query_configs, type_to_config_dict, id_to_config_dict, runner_transform,
      runner_combiner>>
qrCall == <<qr_path, qr_input, index_struct>>
qrVars == <<runnerState, qrCall, qr_pc, config, loc, qr_log, qr_response, qr_error>>

phConfig == <<max_input_size, num_output, embedding_limit, max_chunk_overlap>>
phCall == <<node_list, prompt, chunk_size, ph_text, ph_splitter>>
phVars == <<phConfig, ph_op, ph_args, ph_result, ph_error, phCall>>

dsCall == <<docs_before, ds_op, ds_args, ds_ret, ds_error>>
dsVars == <<docs, dsCall, ds_latest, ds_plain, dumped, loaded>>

qgVars == <<query_engine_dict, qg_stack, qg_calls, qg_result, qg_error>>

raConfig == <<max_iterations, stopping_callable>>
raTask == <<new_memory, sources, count, pending>>
raVars == <<raConfig, raTask, ra_op, ra_verdict, ra_output, ra_error>>

dpArgs == <<num_splits, t_max, dataset_size>>
dpVars == <<dpArgs, dp_pc, iteration, split_tasks, synthetic_example, dp_error>>

ceVars == <<initial_chat_history, chat_history, chat_calls, chat_error>>

\* what the actions of one subsystem leave alone
notGraph == <<qrVars, phVars, dsVars, qgVars, raVars, dpVars, ceVars>>
notRunner == <<geVars, phVars, dsVars, qgVars, raVars, dpVars, ceVars>>
notPrompt == <<geVars, qrVars, dsVars, qgVars, raVars, dpVars, ceVars>>
notStore == <<geVars, qrVars, phVars, qgVars, raVars, dpVars, ceVars>>
notQueryGraph == <<geVars, qrVars, phVars, dsVars, raVars, dpVars, ceVars>>
notReflection == <<geVars, qrVars, phVars, dsVars, qgVars, dpVars, ceVars>>
notDiffPrivate == <<geVars, qrVars, phVars, dsVars, qgVars, raVars, ceVars>>
notChat == <<geVars, qrVars, phVars, dsVars, qgVars, raVars, dpVars>>

(***************************************************************************)
(* Bounds                                                                  *)
(***************************************************************************)
\* longest list a retriever returns
MaxRetrieved == 2
\* deepest recursion level explored (a cyclic graph recurses without end)
MaxLevel == 3
\* longest query_configs list a QueryRunner is built from
MaxConfigs == 2
\* largest context window (max_input_size) a PromptHelper is built with
MaxWindow == 6
\* largest num_output a PromptHelper is built with
MaxNumOutput == 2
\* largest number of tokens of a prompt
MaxPromptTokens == 4
\* largest num_chunks asked for
MaxChunks == 3
\* longest node_list handed to the PromptHelper text joins
MaxNodes == 2
\* longest list of documents handed to one add_documents call
MaxDocs == 2
\* most load_from_dict calls made on one serialized dict
MaxLoads == 2
\* largest max_iterations a reflection worker is built with
MaxIterations == 3
\* most sources one critique response carries
MaxSources == 1
\* largest num_splits a synthetic example is generated with
MaxSplits == 3
\* largest t_max a synthetic example is generated with
MaxTMax == 2
\* most examples of one label in the private dataset
MaxExamples == 3
\* most calls made on one chat engine
MaxChatCalls == 3

(***************************************************************************)
(* Generic helpers                                                         *)
(***************************************************************************)
Range(s) == {s[i] : i \in 1..Len(s)}

\* sequences without repetition over S, of length at most n
DistinctSeqs(S, n) ==
    UNION {{s \in [1..k -> S] : \A i, j \in 1..k : i # j => s[i] # s[j]} : k \in 0..n}

RECURSIVE Flatten(_)
\* concatenation of a sequence of sequences, in order
Flatten(ss) == IF ss = <<>> THEN <<>> ELSE Head(ss) \o Flatten(Tail(ss))

(***************************************************************************)
(* Nodes, responses and the composable graphs the engine is run on         *)
(***************************************************************************)
\* NodeWithScore(node=Node(text=t), score=s)
PlainNode(t, s) == [kind |-> "Node", text |-> t, index_id |-> "", score |-> s]
\* NodeWithScore(node=IndexNode(index_id=id), score=s)
IndexNodeOf(id, s) ==
    [kind |-> "IndexNode", text |-> <<"ref", id>>, index_id |-> id, score |-> s]

\* Response(response=text, source_nodes=src)
Response(text, src) == [response |-> text, source_nodes |-> src]
NoResponse == Response(<<"<none>">>, <<>>)

\* graph.root_id
root_id == "root"
IndexIds == {"root", "mid", "leaf"}

\* the graphs queried: a 3-level tree, a 2-index cycle and a self-referential root
GraphNames == {"tree", "cycle", "self"}

\* graph.get_index(index_id): the nodes the index's own retriever can return
IndexContents(g, id) ==
    CASE g = "tree" /\ id = "root" ->
            {PlainNode(<<"a">>, 1), IndexNodeOf("mid", 2), IndexNodeOf("leaf", 3)}
      [] g = "tree" /\ id = "mid" -> {PlainNode(<<"b">>, 4), IndexNodeOf("leaf", 5)}
      [] g = "cycle" /\ id = "root" -> {PlainNode(<<"a">>, 1), IndexNodeOf("mid", 2)}
      [] g = "cycle" /\ id = "mid" -> {PlainNode(<<"b">>, 4), IndexNodeOf("root", 5)}
      [] g = "self" /\ id = "root" -> {PlainNode(<<"a">>, 1), IndexNodeOf("root", 2)}
      [] OTHER -> {PlainNode(<<"x">>, 6), PlainNode(<<"y">>, 7)}

\* what a caller-supplied retriever for index_id can return
CustomContents(id) ==
    IF id = "mid" THEN {PlainNode(<<"c">>, 8), IndexNodeOf("leaf", 9)}
    ELSE {PlainNode(<<"c">>, 8)}

\* the custom_retrievers maps the engine is built with (their key sets)
CustomRetrieverChoices == {{}, {"mid"}, {"root", "leaf"}}

\* the node_postprocessors lists the engine is built with: none, or one
\* postprocessor that keeps the nodes whose score reaches a cutoff
NodePostprocessorChoices == {<<>>, <<"cutoff">>}

(***************************************************************************)
(* ComposableGraphQueryEngine                                              *)
(***************************************************************************)
\* index_id = index_id or self._graph.root_id   (None and "" are both falsy)
ResolveIndexId(index_id) == IF index_id = "" THEN root_id ELSE index_id

\* faulty variant: custom retrievers are looked up for the root only
SelectRetrieverRootOnly(index_id) ==
    IF index_id \in custom_retrievers /\ index_id = root_id THEN "custom" ELSE "default"

\* the retriever _query_index selects for index_id
SelectRetriever(index_id) ==
    IF index_id \in custom_retrievers THEN "custom" ELSE "default"

\* retriever.retrieve(query_bundle): any list of at most MaxRetrieved nodes
RetrieveResults(index_id) ==
    IF SelectRetriever(index_id) = "custom"
    THEN DistinctSeqs(CustomContents(index_id), MaxRetrieved)
    ELSE DistinctSeqs(IndexContents(graph, index_id), MaxRetrieved)

\* faulty variant: no recursion whatever the flag
UseRecursionNever == FALSE

\* faulty variant: the recursive flag is ignored
UseRecursionAlways == TRUE

\* if self._recursive:
UseRecursion == recursive

\* faulty variant: no node is taken for an IndexNode
IsIndexNodeNever(nws) == FALSE

\* isinstance(node_with_score.node, IndexNode)
IsIndexNode(nws) == nws.kind = "IndexNode"

\* the positions of the IndexNodes in a retrieved list, in increasing order
RECURSIVE IndexPositionsFrom(_, _)
IndexPositionsFrom(s, i) ==
    IF i > Len(s) THEN <<>>
    ELSE (IF IsIndexNode(s[i]) THEN <<i>> ELSE <<>>) \o IndexPositionsFrom(s, i + 1)

\* faulty variant: the retrieved IndexNode is handed on as it is
SubstituteKeepsIndexNode(nws, response) == nws

\* faulty variant: the substituted node loses the score of the IndexNode
SubstituteDropsScore(nws, response) == PlainNode(response.response, 0)

\* NodeWithScore(node=Node(text=str(response)), score=node_with_score.score)
SubstituteNode(nws, response) == PlainNode(response.response, nws.score)

\* faulty variant: the child's source nodes are dropped
ChildSourcesDropped(response) == <<>>

\* the source nodes _fetch_recursive_nodes returns for a resolved child
ChildSources(response) == response.source_nodes

\* ResponseSynthesizer.synthesize(query_bundle, nodes, additional_source_nodes)
Synthesize(nodes, additional) ==
    Response(<<"[">> \o Flatten([i \in 1..Len(nodes) |-> nodes[i].text]) \o <<"]">>,
             nodes \o additional)

\* faulty variant: the descent keeps the level of its parent
NextLevelSame(level) == level

\* the level of the recursive call: level + 1
NextLevel(level) == level + 1

Frame(index_id, level) ==
    [index_id |-> index_id, level |-> level, pc |-> "retrieve", nodes |-> <<>>,
     i |-> 1, nodes_for_synthesis |-> <<>>, additional_source_nodes |-> <<>>,
     response |-> NoResponse]

Event(op, index_id, level, retriever, nodes, extra, response) ==
    [op |-> op, index_id |-> index_id, level |-> level, retriever |-> retriever,
     nodes |-> nodes, extra |-> extra, response |-> response]

Top == stack[Len(stack)]
SetTop(f) == [stack EXCEPT ![Len(stack)] = f]

GraphInit ==
    /\ graph \in GraphNames
    /\ custom_retrievers \in CustomRetrieverChoices
    /\ node_postprocessors \in NodePostprocessorChoices
    /\ recursive \in BOOLEAN
    /\ stack = <<>>
    /\ calls = <<>>
    /\ result = NoResponse

\* _query: self._query_index(query_bundle, index_id=None, level=0)
Query ==
    /\ stack = <<>>
    /\ calls = <<>>
    /\ stack' = <<Frame(ResolveIndexId(""), 0)>>
    /\ calls' = <<Event("query_index", ResolveIndexId(""), 0, "", <<>>, <<>>, NoResponse)>>
    /\ UNCHANGED <<graph, custom_retrievers, node_postprocessors, recursive, result>>
    /\ UNCHANGED notGraph

\* nodes = retriever.retrieve(query_bundle), then the branch on self._recursive
Retrieve ==
    /\ stack # <<>>
    /\ Top.pc = "retrieve"
    /\ \E nodes \in RetrieveResults(Top.index_id) :
          /\ stack' = SetTop([Top EXCEPT !.nodes = nodes,
                                         !.pc = IF UseRecursion THEN "loop" ELSE "synth"])
          /\ calls' = Append(calls, Event("retrieve", Top.index_id, Top.level,
                                          SelectRetriever(Top.index_id), nodes, <<>>,
                                          NoResponse))
    /\ UNCHANGED <<graph, custom_retrievers, node_postprocessors, recursive, result>>
    /\ UNCHANGED notGraph

\* _fetch_recursive_nodes on a plain node: the node itself and no source nodes
FetchPlain ==
    /\ stack # <<>>
    /\ Top.pc = "loop"
    /\ Top.i <= Len(Top.nodes)
    /\ ~IsIndexNode(Top.nodes[Top.i])
    /\ stack' = SetTop([Top EXCEPT
                          !.nodes_for_synthesis = Append(@, Top.nodes[Top.i]),
                          !.i = @ + 1])
    /\ UNCHANGED <<graph, custom_retrievers, node_postprocessors, recursive, calls, result>>
    /\ UNCHANGED notGraph

\* _fetch_recursive_nodes on an IndexNode: the recursive _query_index call
FetchDescend ==
    /\ stack # <<>>
    /\ Top.pc = "loop"
    /\ Top.i <= Len(Top.nodes)
    /\ IsIndexNode(Top.nodes[Top.i])
    /\ Top.level < MaxLevel
    /\ LET id == ResolveIndexId(Top.nodes[Top.i].index_id) IN
          /\ stack' = Append(SetTop([Top EXCEPT !.pc = "await"]),
                             Frame(id, NextLevel(Top.level)))
          /\ calls' = Append(calls, Event("query_index", id, NextLevel(Top.level), "",
                                          <<>>, <<>>, NoResponse))
    /\ UNCHANGED <<graph, custom_retrievers, node_postprocessors, recursive, result>>
    /\ UNCHANGED notGraph

\* the recursive call returned: substitute the node, collect the child's sources
FetchReturn ==
    /\ Len(stack) > 1
    /\ Top.pc = "done"
    /\ LET parent == stack[Len(stack) - 1]
           response == Top.response
           nws == parent.nodes[parent.i]
       IN stack' = Append(SubSeq(stack, 1, Len(stack) - 2),
                          [parent EXCEPT
                             !.pc = "loop",
                             !.nodes_for_synthesis = Append(@, SubstituteNode(nws, response)),
                             !.additional_source_nodes = @ \o ChildSources(response),
                             !.i = @ + 1])
    /\ UNCHANGED <<graph, custom_retrievers, node_postprocessors, recursive, calls, result>>
    /\ UNCHANGED notGraph

\* self._response_synthesizer.synthesize(...) of either branch
SynthesizeLevel ==
    /\ stack # <<>>
    /\ \/ Top.pc = "loop" /\ Top.i > Len(Top.nodes)
       \/ Top.pc = "synth"
    /\ LET nodes == IF Top.pc = "loop" THEN Top.nodes_for_synthesis ELSE Top.nodes
           extra == IF Top.pc = "loop" THEN Top.additional_source_nodes ELSE <<>>
           response == Synthesize(nodes, extra)
       IN /\ stack' = SetTop([Top EXCEPT !.pc = "done", !.response = response])
          /\ calls' = Append(calls, Event("synthesize", Top.index_id, Top.level, "",
                                          nodes, extra, response))
    /\ UNCHANGED <<graph, custom_retrievers, node_postprocessors, recursive, result>>
    /\ UNCHANGED notGraph

\* the root _query_index call returns its response to the caller
QueryReturn ==
    /\ Len(stack) = 1
    /\ Top.pc = "done"
    /\ result' = Top.response
    /\ stack' = <<>>
    /\ UNCHANGED <<graph, custom_retrievers, node_postprocessors, recursive, calls>>
    /\ UNCHANGED notGraph

GraphNext ==
    \/ Query
    \/ Retrieve
    \/ FetchPlain
    \/ FetchDescend
    \/ FetchReturn
    \/ SynthesizeLevel
    \/ QueryReturn

(***************************************************************************)
(* Reading the call log of one graph query                                 *)
(***************************************************************************)
SynthPositions == {k \in 1..Len(calls) : calls[k].op = "synthesize"}
RetrievePositions == {k \in 1..Len(calls) : calls[k].op = "retrieve"}
QueryIndexPositions == {k \in 1..Len(calls) : calls[k].op = "query_index"}

\* the _query_index call whose synthesize call is calls[k]
OwnCall(k) ==
    CHOOSE q \in QueryIndexPositions :
        /\ q < k
        /\ calls[q].level = calls[k].level
        /\ \A p \in QueryIndexPositions :
              (p < k /\ calls[p].level = calls[k].level) => p <= q

\* the list retrieved by the _query_index call whose synthesize call is calls[k]
RetrievedAt(k) ==
    LET r == CHOOSE r \in RetrievePositions :
                 /\ OwnCall(k) < r
                 /\ r < k
                 /\ calls[r].level = calls[k].level
    IN calls[r].nodes

RECURSIVE ChildSynthsFrom(_, _)
ChildSynthsFrom(p, k) ==
    IF p >= k THEN <<>>
    ELSE (IF calls[p].op = "synthesize" /\ calls[p].level = calls[k].level + 1
          THEN <<calls[p]>> ELSE <<>>) \o ChildSynthsFrom(p + 1, k)

\* the synthesize calls of the children resolved for calls[k], in call order
ChildSynths(k) == ChildSynthsFrom(OwnCall(k), k)

GraphDone == result # NoResponse

(***************************************************************************)
(* C1: with recursive=True no IndexNode is ever passed to synthesize: at   *)
(* every level each retrieved IndexNode has been replaced by a plain Node  *)
(* whose text is the response of a _query_index call on its index_id.      *)
(***************************************************************************)
C1_NoIndexNodeSynthesized ==
    recursive =>
        \A k \in SynthPositions :
            LET e == calls[k]
                retrieved == RetrievedAt(k)
                pos == IndexPositionsFrom(retrieved, 1)
                kids == ChildSynths(k)
            IN /\ \A i \in 1..Len(e.nodes) : e.nodes[i].kind # "IndexNode"
               /\ Len(e.nodes) = Len(retrieved)
               /\ Len(kids) = Len(pos)
               /\ \A m \in 1..Len(pos) :
                     /\ kids[m].index_id = retrieved[pos[m]].index_id
                     /\ e.nodes[pos[m]].kind = "Node"
                     /\ e.nodes[pos[m]].text = kids[m].response.response

\* a finished recursive query that resolved an IndexNode below the root level
C1_Witness ==
    /\ recursive
    /\ GraphDone
    /\ \E k \in RetrievePositions :
          calls[k].level >= 1 /\ \E i \in 1..Len(calls[k].nodes) :
              calls[k].nodes[i].kind = "IndexNode"

(***************************************************************************)
(* C2: with recursive=True the additional source nodes handed to the       *)
(* synthesizer at a level are exactly the concatenation, in retrieved-node *)
(* order, of the source_nodes of the child responses resolved at that      *)
(* level; the root call so receives the substituted nodes and every        *)
(* child-level source node.                                                *)
(***************************************************************************)
C2_AdditionalSourcesAreChildSources ==
    recursive =>
        \A k \in SynthPositions :
            LET kids == ChildSynths(k) IN
               /\ calls[k].extra =
                     Flatten([m \in 1..Len(kids) |-> kids[m].response.source_nodes])
               /\ \A m \in 1..Len(kids) :
                     \E i \in 1..Len(calls[k].nodes) :
                        calls[k].nodes[i].text = kids[m].response.response

\* a finished recursive query whose root resolved two children with source nodes
C2_Witness ==
    /\ recursive
    /\ GraphDone
    /\ \E k \in SynthPositions :
          /\ calls[k].level = 0
          /\ Len(ChildSynths(k)) = 2
          /\ \A m \in 1..2 : ChildSynths(k)[m].response.source_nodes # <<>>

(***************************************************************************)
(* C3: with recursive=False a query performs exactly one retrieve and one  *)
(* synthesize, both on the root index, hands the retrieved list unchanged  *)
(* (IndexNodes included) to the synthesizer and never calls _query_index   *)
(* for a child index.                                                      *)
(***************************************************************************)
C3_NonRecursiveSinglePass ==
    ~recursive =>
        /\ Cardinality(RetrievePositions) <= 1
        /\ Cardinality(SynthPositions) <= 1
        /\ Cardinality(QueryIndexPositions) <= 1
        /\ \A k \in 1..Len(calls) : calls[k].index_id = root_id /\ calls[k].level = 0
        /\ \A k \in SynthPositions :
              /\ \E r \in RetrievePositions : r < k /\ calls[k].nodes = calls[r].nodes
              /\ calls[k].extra = <<>>
        /\ GraphDone =>
              /\ Cardinality(RetrievePositions) = 1
              /\ Cardinality(SynthPositions) = 1

\* a finished non-recursive query whose retrieved list held an IndexNode
C3_Witness ==
    /\ ~recursive
    /\ GraphDone
    /\ \E k \in SynthPositions : \E i \in 1..Len(calls[k].nodes) :
          calls[k].nodes[i].kind = "IndexNode"

(***************************************************************************)
(* QueryRunner: configs, transforms, combiners, registry                   *)
(***************************************************************************)
NoneVal == "None"

\* the query_kwargs keys _get_query_kwargs fills in, in the order it tests them
KwargKeys == <<"prompt_helper", "llm_predictor", "embed_model">>

\* a caller-supplied query_kwargs mapping over the keys ks
ConfigKwargs(ks) == [k \in ks |-> <<"config", k>>]

\* QueryConfig(index_struct_type, query_mode, query_kwargs, index_struct_id,
\*             query_transform, query_combiner)
QueryConfig(type, id, mode, kwargs, transform, combiner) ==
    [index_struct_type |-> type, index_struct_id |-> id, query_mode |-> mode,
     query_kwargs |-> kwargs, query_transform |-> transform,
     query_combiner |-> combiner]

StructTypes == {"tree", "list", "kg"}
StructIds == {"A", "B"}

\* the mode / kwargs / transform / combiner settings the configs are drawn from
ConfigProfiles ==
    { [mode |-> "default", keys |-> {"prompt_helper"}, transform |-> NoneVal,
       combiner |-> NoneVal],
      [mode |-> "embedding", keys |-> Range(KwargKeys), transform |-> "T1",
       combiner |-> "C1"],
      [mode |-> "default", keys |-> Range(KwargKeys), transform |-> NoneVal,
       combiner |-> NoneVal] }

\* the QueryConfig objects a caller passes to QueryRunner.__init__
ConfigPool ==
    { QueryConfig(t, id, p.mode, ConfigKwargs(p.keys), p.transform, p.combiner) :
        t \in {"tree", "list"}, id \in {NoneVal, "A"}, p \in ConfigProfiles }

\* index_registry.type_to_query: the modes registered for each struct type
RegisteredModes(type) ==
    CASE type = "tree" -> {"default", "embedding"}
      [] type = "list" -> {"default"}
      [] OTHER -> {}

\* the instance attributes QueryRunner.__init__ assigns
RunnerAttrs ==
    {"_type_to_config_dict", "_id_to_config_dict", "_service_context", "_docstore",
     "_index_registry", "_query_transform", "_query_combiner", "_recursive",
     "_use_async"}

\* reading self.<attr> succeeds only for an assigned attribute
HasAttr(attr) == attr \in RunnerAttrs

\* the attribute _get_query_kwargs reads as the default for key k
AttrOfKey(k) ==
    CASE k = "prompt_helper" -> "_prompt_helper"
      [] k = "llm_predictor" -> "_llm_predictor"
      [] k = "embed_model" -> "_embed_model"

RECURSIVE BuildTypeDict(_)
\* for qc in query_config_objs: type_to_config_dict[qc.index_struct_type] = qc
BuildTypeDict(qcs) ==
    IF qcs = <<>> THEN <<>>
    ELSE LET rest == BuildTypeDict(SubSeq(qcs, 1, Len(qcs) - 1))
             qc == qcs[Len(qcs)]
         IN [t \in DOMAIN rest \cup {qc.index_struct_type} |->
                IF t = qc.index_struct_type THEN qc ELSE rest[t]]

RECURSIVE BuildIdDict(_)
\* if qc.index_struct_id is not None: id_to_config_dict[qc.index_struct_id] = qc
BuildIdDict(qcs) ==
    IF qcs = <<>> THEN <<>>
    ELSE LET rest == BuildIdDict(SubSeq(qcs, 1, Len(qcs) - 1))
             qc == qcs[Len(qcs)]
         IN IF qc.index_struct_id # NoneVal
            THEN [i \in DOMAIN rest \cup {qc.index_struct_id} |->
                     IF i = qc.index_struct_id THEN qc ELSE rest[i]]
            ELSE rest

\* faulty variant: the type-keyed config is preferred over the id-keyed one
GetQueryConfigTypeFirst(struct) ==
    IF struct.type \in DOMAIN type_to_config_dict
    THEN type_to_config_dict[struct.type]
    ELSE IF struct.id \in DOMAIN id_to_config_dict
    THEN id_to_config_dict[struct.id]
    ELSE QueryConfig(struct.type, NoneVal, "default", <<>>, NoneVal, NoneVal)

\* QueryRunner._get_query_config
GetQueryConfig(struct) ==
    IF struct.id \in DOMAIN id_to_config_dict
    THEN id_to_config_dict[struct.id]
    ELSE IF struct.type \in DOMAIN type_to_config_dict
    THEN type_to_config_dict[struct.type]
    ELSE QueryConfig(struct.type, NoneVal, "default", <<>>, NoneVal, NoneVal)

\* faulty variant: a config's query_transform override is ignored
GetQueryTransformNoOverride(struct) == runner_transform

\* QueryRunner._get_query_transform
GetQueryTransform(struct) ==
    IF GetQueryConfig(struct).query_transform # NoneVal
    THEN GetQueryConfig(struct).query_transform
    ELSE runner_transform

\* an exception of the given type raised inside the given method
Error(type, at) == [type |-> type, at |-> at]
NoError == Error("", "")

Combiner(kind, transform) == [kind |-> kind, transform |-> transform]
NoCombiner == Combiner(NoneVal, NoneVal)

\* QueryRunner._get_query_combiner: [error, combiner]
GetQueryCombiner(struct, query_transform) ==
    LET cfg == GetQueryConfig(struct)
        query_combiner == IF cfg.query_combiner # NoneVal THEN cfg.query_combiner
                          ELSE runner_combiner
    IN IF query_combiner # NoneVal
       THEN [error |-> NoError, combiner |-> Combiner(query_combiner, NoneVal)]
       ELSE IF ~HasAttr("_llm_predictor")
       THEN [error |-> Error("AttributeError", "_get_query_combiner"),
             combiner |-> NoCombiner]
       ELSE [error |-> NoError, combiner |-> Combiner("default", query_transform)]

RECURSIVE FirstMissingAttr(_, _)
\* the first key, in test order from i, that is absent from kwargs and has no attribute
FirstMissingAttr(kwargs, i) ==
    IF i > Len(KwargKeys) THEN ""
    ELSE IF KwargKeys[i] \notin DOMAIN kwargs /\ ~HasAttr(AttrOfKey(KwargKeys[i]))
    THEN KwargKeys[i]
    ELSE FirstMissingAttr(kwargs, i + 1)

\* QueryRunner._get_query_kwargs: [error, kwargs]
GetQueryKwargs(cfg) ==
    LET query_kwargs == cfg.query_kwargs IN
    IF FirstMissingAttr(query_kwargs, 1) # ""
    THEN [error |-> Error("AttributeError", "_get_query_kwargs"), kwargs |-> <<>>]
    ELSE [error |-> NoError,
          kwargs |-> [k \in DOMAIN query_kwargs \cup Range(KwargKeys) |->
                        IF k \in DOMAIN query_kwargs THEN query_kwargs[k]
                        ELSE <<"runner", k>>]]

QueryObj(cls, struct, kwargs) ==
    [built |-> TRUE, cls |-> cls, index_struct |-> struct, kwargs |-> kwargs]
NoQueryObj ==
    [built |-> FALSE, cls |-> <<>>, index_struct |-> [id |-> "", type |-> ""],
     kwargs |-> <<>>]

\* QueryRunner._get_query_obj: [error, obj]
GetQueryObj(struct) ==
    LET cfg == GetQueryConfig(struct)
        mode == cfg.query_mode
    IN IF mode \notin RegisteredModes(struct.type)
       THEN [error |-> Error("KeyError", "_get_query_obj"), obj |-> NoQueryObj]
       ELSE IF GetQueryKwargs(cfg).error # NoError
       THEN [error |-> GetQueryKwargs(cfg).error, obj |-> NoQueryObj]
       ELSE [error |-> NoError,
             obj |-> QueryObj(<<struct.type, mode>>, struct, GetQueryKwargs(cfg).kwargs)]

\* QueryBundle(query_str, custom_embedding_strs); kind "str" is a bare query string
Bundle(query_str, embs) ==
    [kind |-> "bundle", query_str |-> query_str, custom_embedding_strs |-> embs]
BareString(query_str) ==
    [kind |-> "str", query_str |-> query_str, custom_embedding_strs |-> <<>>]
NoBundle == [kind |-> NoneVal, query_str |-> <<>>, custom_embedding_strs |-> <<>>]

QueryInputs == {BareString(<<"q">>), Bundle(<<"q">>, <<<<"e1">>, <<"e2">>>>)}

\* query(): a str becomes QueryBundle(query_str=s, custom_embedding_strs=[s])
AsBundle(input) ==
    IF input.kind = "str" THEN Bundle(input.query_str, <<input.query_str>>) ELSE input

\* query_transform(query_str_or_bundle, extra_info): identity normalises a bare
\* string, any other transform also rewrites the query string
ApplyTransform(transform, input) ==
    IF transform = "identity" THEN AsBundle(input)
    ELSE [AsBundle(input) EXCEPT !.query_str = <<transform>> \o @]

\* the Response a query object produces for a bundle
ObjResponse(obj, bundle) == [built |-> TRUE, cls |-> obj.cls, bundle |-> bundle]
NoRunnerResponse == [built |-> FALSE, cls |-> <<>>, bundle |-> NoBundle]

LogEntry(op, by, what, obj, bundle) ==
    [op |-> op, by |-> by, what |-> what, obj |-> obj, bundle |-> bundle]

\* query_combiner.run(query_obj, query_bundle): the calls it makes
CombinerRunLog(combiner, obj, bundle) ==
    <<LogEntry("combiner.run", "runner", combiner.kind, obj, bundle)>>
    \o (IF combiner.kind = "default"
        THEN <<LogEntry("transform", "combiner", combiner.transform, NoQueryObj, bundle),
               LogEntry("query_obj.query", "combiner", "", obj,
                        ApplyTransform(combiner.transform, bundle))>>
        ELSE <<LogEntry("query_obj.query", "combiner", "", obj, bundle)>>)

\* faulty variant: the runner calls the query object itself (the commented-out return)
SyncExecuteLogDirect(combiner, obj, bundle) ==
    <<LogEntry("query_obj.query", "runner", "", obj, bundle)>>

\* return query_combiner.run(query_obj, query_bundle)
SyncExecuteLog(combiner, obj, bundle) == CombinerRunLog(combiner, obj, bundle)

\* the Response of the last query-object call in a log
LogResponse(log) == ObjResponse(log[Len(log)].obj, log[Len(log)].bundle)

NoLocals ==
    [query_transform |-> NoneVal, query_combiner |-> NoCombiner,
     query_obj |-> NoQueryObj, query_bundle |-> NoBundle]

NoConfig == QueryConfig(NoneVal, NoneVal, NoneVal, <<>>, NoneVal, NoneVal)

RunnerInit ==
    /\ query_configs \in DistinctSeqs(ConfigPool, MaxConfigs)
    /\ type_to_config_dict = BuildTypeDict(query_configs)
    /\ id_to_config_dict = BuildIdDict(query_configs)
    /\ runner_transform \in {"identity", "T0"}
    /\ runner_combiner \in {NoneVal, "C0"}
    /\ qr_pc = "idle"
    /\ qr_path = NoneVal
    /\ qr_input = NoBundle
    /\ index_struct = [id |-> "", type |-> ""]
    /\ config = NoConfig
    /\ loc = NoLocals
    /\ qr_log = <<>>
    /\ qr_response = NoRunnerResponse
    /\ qr_error = NoError

\* a caller enters QueryRunner.query or QueryRunner.aquery
StartCall(path) ==
    /\ qr_pc = "idle"
    /\ qr_path' = path
    /\ qr_input' \in QueryInputs
    /\ index_struct' \in [id : StructIds, type : StructTypes]
    /\ qr_pc' = "get_transform"
    /\ UNCHANGED <<runnerState, config, loc, qr_log, qr_response, qr_error>>
    /\ UNCHANGED notRunner

StartQuery == StartCall("sync")
StartAQuery == StartCall("async")

\* query: query_transform = self._get_query_transform(index_struct)
QueryGetTransform ==
    /\ qr_pc = "get_transform" /\ qr_path = "sync"
    /\ config' = GetQueryConfig(index_struct)
    /\ loc' = [loc EXCEPT !.query_transform = GetQueryTransform(index_struct)]
    /\ qr_pc' = "get_combiner"
    /\ UNCHANGED <<runnerState, qrCall, qr_log, qr_response, qr_error>>
    /\ UNCHANGED notRunner

\* query: query_combiner = self._get_query_combiner(index_struct, query_transform)
QueryGetCombiner ==
    /\ qr_pc = "get_combiner"
    /\ LET r == GetQueryCombiner(index_struct, loc.query_transform) IN
          /\ loc' = [loc EXCEPT !.query_combiner = r.combiner]
          /\ qr_error' = r.error
          /\ qr_pc' = IF r.error = NoError THEN "get_query_obj" ELSE "error"
          /\ qr_log' = IF r.error = NoError
                       THEN Append(qr_log, LogEntry("get_combiner", "runner",
                                                    r.combiner.kind, NoQueryObj, NoBundle))
                       ELSE qr_log
    /\ UNCHANGED <<runnerState, qrCall, config, qr_response>>
    /\ UNCHANGED notRunner

\* query: query_obj = self._get_query_obj(index_struct)
QueryGetObj ==
    /\ qr_pc = "get_query_obj" /\ qr_path = "sync"
    /\ LET r == GetQueryObj(index_struct) IN
          /\ loc' = [loc EXCEPT !.query_obj = r.obj]
          /\ qr_error' = r.error
          /\ qr_pc' = IF r.error = NoError THEN "make_bundle" ELSE "error"
    /\ UNCHANGED <<runnerState, qrCall, config, qr_log, qr_response>>
    /\ UNCHANGED notRunner

\* query: the isinstance(query_str_or_bundle, str) branch
QueryMakeBundle ==
    /\ qr_pc = "make_bundle"
    /\ loc' = [loc EXCEPT !.query_bundle = AsBundle(qr_input)]
    /\ qr_pc' = "run"
    /\ UNCHANGED <<runnerState, qrCall, config, qr_log, qr_response, qr_error>>
    /\ UNCHANGED notRunner

\* query: return query_combiner.run(query_obj, query_bundle)
QueryRun ==
    /\ qr_pc = "run"
    /\ LET log == SyncExecuteLog(loc.query_combiner, loc.query_obj, loc.query_bundle) IN
          /\ qr_log' = qr_log \o log
          /\ qr_response' = LogResponse(log)
    /\ qr_pc' = "done"
    /\ UNCHANGED <<runnerState, qrCall, config, loc, qr_error>>
    /\ UNCHANGED notRunner

\* aquery: query_transform = self._get_query_transform(index_struct)
AQueryGetTransform ==
    /\ qr_pc = "get_transform" /\ qr_path = "async"
    /\ config' = GetQueryConfig(index_struct)
    /\ loc' = [loc EXCEPT !.query_transform = GetQueryTransform(index_struct)]
    /\ qr_pc' = "apply_transform"
    /\ UNCHANGED <<runnerState, qrCall, qr_log, qr_response, qr_error>>
    /\ UNCHANGED notRunner

\* aquery: query_bundle = query_transform(query_str_or_bundle, extra_info=...)
AQueryApplyTransform ==
    /\ qr_pc = "apply_transform"
    /\ loc' = [loc EXCEPT !.query_bundle = ApplyTransform(loc.query_transform, qr_input)]
    /\ qr_log' = Append(qr_log, LogEntry("transform", "runner", loc.query_transform,
                                         NoQueryObj, qr_input))
    /\ qr_pc' = "get_query_obj"
    /\ UNCHANGED <<runnerState, qrCall, config, qr_response, qr_error>>
    /\ UNCHANGED notRunner

\* aquery: query_obj = self._get_query_obj(index_struct)
AQueryGetObj ==
    /\ qr_pc = "get_query_obj" /\ qr_path = "async"
    /\ LET r == GetQueryObj(index_struct) IN
          /\ loc' = [loc EXCEPT !.query_obj = r.obj]
          /\ qr_error' = r.error
          /\ qr_pc' = IF r.error = NoError THEN "await" ELSE "error"
    /\ UNCHANGED <<runnerState, qrCall, config, qr_log, qr_response>>
    /\ UNCHANGED notRunner

\* aquery: return await query_obj.aquery(query_bundle)
AQueryAwait ==
    /\ qr_pc = "await"
    /\ qr_log' = Append(qr_log, LogEntry("query_obj.aquery", "runner", "",
                                         loc.query_obj, loc.query_bundle))
    /\ qr_response' = ObjResponse(loc.query_obj, loc.query_bundle)
    /\ qr_pc' = "done"
    /\ UNCHANGED <<runnerState, qrCall, config, loc, qr_error>>
    /\ UNCHANGED notRunner

RunnerNext ==
    \/ StartQuery
    \/ StartAQuery
    \/ QueryGetTransform
    \/ QueryGetCombiner
    \/ QueryGetObj
    \/ QueryMakeBundle
    \/ QueryRun
    \/ AQueryGetTransform
    \/ AQueryApplyTransform
    \/ AQueryGetObj
    \/ AQueryAwait

(***************************************************************************)
(* PromptHelper                                                            *)
(***************************************************************************)
\* Optional[int]: None, or an int
Some(v) == [some |-> TRUE, v |-> v]
None == [some |-> FALSE, v |-> 0]

Min(a, b) == IF a <= b THEN a ELSE b

\* faulty variant: division that truncates toward zero
TruncDiv(a, b) == IF a >= 0 THEN a \div b ELSE -((-a) \div b)

\* Python's a // b for b > 0
PyFloorDiv(a, b) == a \div b

\* PromptHelper.get_chunk_size_given_prompt: [error, value]
GetChunkSizeGivenPrompt(num_prompt_tokens, num_chunks, padding) ==
    IF num_chunks = 0
    THEN [error |-> "ZeroDivisionError", value |-> 0]
    ELSE LET quotient == PyFloorDiv(max_input_size - num_prompt_tokens - num_output,
                                    num_chunks)
             padded == IF padding.some THEN quotient - padding.v ELSE quotient
         IN [error |-> "",
             value |-> IF embedding_limit.some THEN Min(padded, embedding_limit.v)
                       ELSE padded]

\* a text is the sequence of its characters; the node texts drawn
NodeTexts == {<< >>, <<"a", "b">>, <<"c", "d", "e", "f">>}

NodeLists == UNION {[1..n -> NodeTexts] : n \in 0..MaxNodes}

Max(a, b) == IF a >= b THEN a ELSE b

\* Python's text[:n]: a negative n drops the last -n characters
PySlice(text, n) ==
    SubSeq(text, 1, IF n >= 0 THEN Min(n, Len(text)) ELSE Max(Len(text) + n, 0))

\* sep.join(results)
RECURSIVE Join(_, _)
Join(results, sep) ==
    IF Len(results) = 0 THEN << >>
    ELSE IF Len(results) = 1 THEN results[1]
    ELSE results[1] \o sep \o Join(Tail(results), sep)

\* TokenTextSplitter(separator, chunk_size, chunk_overlap)
TokenTextSplitter(separator, size, overlap) ==
    [separator |-> separator, chunk_size |-> size, chunk_overlap |-> overlap]
NoSplitter == [separator |-> "", chunk_size |-> 0, chunk_overlap |-> 0]

\* the arguments of a get_chunk_size_given_prompt call
ChunkArgs(t, n, padding) == [num_prompt_tokens |-> t, num_chunks |-> n, padding |-> padding]
NoChunkArgs == ChunkArgs(0, 0, None)

\* PromptHelper.get_text_splitter_given_prompt: [error, chunk_size, splitter]
GetTextSplitterGivenPrompt(num_prompt_tokens, num_chunks) ==
    LET size == GetChunkSizeGivenPrompt(num_prompt_tokens, num_chunks, Some(1))
    IN IF size.error # ""
       THEN [error |-> size.error, chunk_size |-> None, splitter |-> NoSplitter]
       ELSE [error |-> "", chunk_size |-> Some(size.value),
             splitter |-> TokenTextSplitter(" ", size.value,
                                            PyFloorDiv(max_chunk_overlap, num_chunks))]

\* PromptHelper.get_text_from_nodes: [error, chunk_size, text]
GetTextFromNodes(nodes, p) ==
    LET size == IF p.some THEN GetChunkSizeGivenPrompt(p.v, Len(nodes), Some(1))
                ELSE [error |-> "", value |-> 0]
    IN IF size.error # ""
       THEN [error |-> size.error, chunk_size |-> None, text |-> << >>]
       ELSE [error |-> "",
             chunk_size |-> IF p.some THEN Some(size.value) ELSE None,
             text |-> Join([i \in 1..Len(nodes) |->
                               IF p.some THEN PySlice(nodes[i], size.value)
                               ELSE nodes[i]],
                           <<"\n">>)]

\* PromptHelper.get_numbered_text_from_nodes: [error, chunk_size, text];
\* the first pass of the loop ends in results.append() without an argument
GetNumberedTextFromNodes(nodes, p) ==
    LET size == IF p.some THEN GetChunkSizeGivenPrompt(p.v, Len(nodes), Some(5))
                ELSE [error |-> "", value |-> 0]
        local == IF p.some THEN Some(size.value) ELSE None
    IN IF size.error # ""
       THEN [error |-> size.error, chunk_size |-> None, text |-> << >>]
       ELSE IF Len(nodes) > 0
       THEN [error |-> "TypeError", chunk_size |-> local, text |-> << >>]
       ELSE [error |-> "", chunk_size |-> local, text |-> Join(<< >>, <<"\n", "\n">>)]

PromptInit ==
    /\ max_input_size \in 0..MaxWindow
    /\ num_output \in 0..MaxNumOutput
    /\ embedding_limit \in {None, Some(1), Some(3)}
    /\ max_chunk_overlap \in {0, 3}
    /\ ph_op = ""
    /\ ph_args = NoChunkArgs
    /\ ph_result = 0
    /\ ph_error = ""
    /\ node_list = << >>
    /\ prompt = None
    /\ chunk_size = None
    /\ ph_text = << >>
    /\ ph_splitter = NoSplitter

\* The methods read self and never assign it, and none reads what an earlier
\* call returned: a call on a used helper behaves as on a fresh one, so one
\* call per constructed helper is explored.

\* a call of get_chunk_size_given_prompt(prompt, num_chunks, padding)
CallGetChunkSize ==
    \E t \in 0..MaxPromptTokens, n \in 0..MaxChunks,
       padding \in {None, Some(0), Some(1), Some(5)} :
        LET out == GetChunkSizeGivenPrompt(t, n, padding)
        IN /\ ph_op = ""
           /\ ph_op' = "get_chunk_size_given_prompt"
           /\ ph_args' = ChunkArgs(t, n, padding)
           /\ ph_result' = out.value
           /\ ph_error' = out.error
           /\ node_list' = << >>
           /\ prompt' = Some(t)
           /\ chunk_size' = IF out.error = "" THEN Some(out.value) ELSE None
           /\ ph_text' = << >>
           /\ ph_splitter' = NoSplitter
           /\ UNCHANGED phConfig
           /\ UNCHANGED notPrompt

\* a call of get_text_splitter_given_prompt(prompt, num_chunks)
CallGetTextSplitter ==
    \E t \in 0..MaxPromptTokens, n \in 0..MaxChunks :
        LET out == GetTextSplitterGivenPrompt(t, n)
        IN /\ ph_op = ""
           /\ ph_op' = "get_text_splitter_given_prompt"
           /\ ph_args' = ChunkArgs(t, n, Some(1))
           /\ ph_result' = 0
           /\ ph_error' = out.error
           /\ node_list' = << >>
           /\ prompt' = Some(t)
           /\ chunk_size' = out.chunk_size
           /\ ph_text' = << >>
           /\ ph_splitter' = out.splitter
           /\ UNCHANGED phConfig
           /\ UNCHANGED notPrompt

\* a call of get_text_from_nodes(node_list, prompt)
CallGetTextFromNodes ==
    \E nodes \in NodeLists, p \in {None} \cup {Some(t) : t \in 0..MaxPromptTokens} :
        LET out == GetTextFromNodes(nodes, p)
        IN /\ ph_op = ""
           /\ ph_op' = "get_text_from_nodes"
           /\ ph_args' = IF p.some THEN ChunkArgs(p.v, Len(nodes), Some(1)) ELSE NoChunkArgs
           /\ ph_result' = 0
           /\ ph_error' = out.error
           /\ node_list' = nodes
           /\ prompt' = p
           /\ chunk_size' = out.chunk_size
           /\ ph_text' = out.text
           /\ ph_splitter' = NoSplitter
           /\ UNCHANGED phConfig
           /\ UNCHANGED notPrompt

\* a call of get_numbered_text_from_nodes(node_list, prompt)
CallGetNumberedTextFromNodes ==
    \E nodes \in NodeLists, p \in {None} \cup {Some(t) : t \in 0..MaxPromptTokens} :
        LET out == GetNumberedTextFromNodes(nodes, p)
        IN /\ ph_op = ""
           /\ ph_op' = "get_numbered_text_from_nodes"
           /\ ph_args' = IF p.some THEN ChunkArgs(p.v, Len(nodes), Some(5)) ELSE NoChunkArgs
           /\ ph_result' = 0
           /\ ph_error' = out.error
           /\ node_list' = nodes
           /\ prompt' = p
           /\ chunk_size' = out.chunk_size
           /\ ph_text' = out.text
           /\ ph_splitter' = NoSplitter
           /\ UNCHANGED phConfig
           /\ UNCHANGED notPrompt

PromptNext ==
    \/ CallGetChunkSize
    \/ CallGetTextSplitter
    \/ CallGetTextFromNodes
    \/ CallGetNumberedTextFromNodes

\* the helper before any call, as the other specifications hold it
PromptIdle ==
    /\ max_input_size = 0
    /\ num_output = 0
    /\ embedding_limit = None
    /\ max_chunk_overlap = 0
    /\ ph_op = ""
    /\ ph_args = NoChunkArgs
    /\ ph_result = 0
    /\ ph_error = ""
    /\ node_list = << >>
    /\ prompt = None
    /\ chunk_size = None
    /\ ph_text = << >>
    /\ ph_splitter = NoSplitter

\* the engine before any query, as the other specifications hold it
GraphIdle ==
    /\ graph = "tree"
    /\ custom_retrievers = {}
    /\ node_postprocessors = <<>>
    /\ recursive = TRUE
    /\ stack = <<>>
    /\ calls = <<>>
    /\ result = NoResponse

\* the runner before construction, as the other specifications hold it
RunnerIdle ==
    /\ query_configs = <<>>
    /\ type_to_config_dict = <<>>
    /\ id_to_config_dict = <<>>
    /\ runner_transform = "identity"
    /\ runner_combiner = NoneVal
    /\ qr_pc = "idle"
    /\ qr_path = NoneVal
    /\ qr_input = NoBundle
    /\ index_struct = [id |-> "", type |-> ""]
    /\ config = NoConfig
    /\ loc = NoLocals
    /\ qr_log = <<>>
    /\ qr_response = NoRunnerResponse
    /\ qr_error = NoError

(***************************************************************************)
(* Reading the constructor's config list and the log of one runner query   *)
(***************************************************************************)
ConfigsWithId(id) ==
    {k \in 1..Len(query_configs) : query_configs[k].index_struct_id = id}
ConfigsWithType(type) ==
    {k \in 1..Len(query_configs) : query_configs[k].index_struct_type = type}
Last(S) == CHOOSE m \in S : \A x \in S : x <= m

\* id, else type, else default, read off the list the runner was built from
ExpectedConfig(struct) ==
    IF ConfigsWithId(struct.id) # {}
    THEN query_configs[Last(ConfigsWithId(struct.id))]
    ELSE IF ConfigsWithType(struct.type) # {}
    THEN query_configs[Last(ConfigsWithType(struct.type))]
    ELSE QueryConfig(struct.type, NoneVal, "default", <<>>, NoneVal, NoneVal)

ExpectedTransform(struct) ==
    IF ExpectedConfig(struct).query_transform # NoneVal
    THEN ExpectedConfig(struct).query_transform
    ELSE runner_transform

ExpectedCombinerKind(struct) ==
    IF ExpectedConfig(struct).query_combiner # NoneVal
    THEN ExpectedConfig(struct).query_combiner
    ELSE IF runner_combiner # NoneVal THEN runner_combiner ELSE "default"

LogPositions(ops) == {k \in 1..Len(qr_log) : qr_log[k].op \in ops}
ConfigResolved == qr_pc \notin {"idle", "get_transform"}

(***************************************************************************)
(* C4: _get_query_config returns the config registered for the struct's id *)
(* whenever one exists, even if one for its type exists too; otherwise the *)
(* config registered for its type; otherwise a new QueryConfig of that     *)
(* type with query_mode DEFAULT.                                           *)
(***************************************************************************)
C4_ConfigPrecedence ==
    ConfigResolved =>
        /\ config = ExpectedConfig(index_struct)
        /\ (ConfigsWithId(index_struct.id) = {} /\ ConfigsWithType(index_struct.type) = {})
              => /\ config.index_struct_type = index_struct.type
                 /\ config.query_mode = "default"

\* a query on struct "A" for which an id-keyed and a different type-keyed config exist
C4_Witness ==
    /\ qr_pc = "done"
    /\ ConfigsWithId(index_struct.id) # {}
    /\ index_struct.type \in DOMAIN type_to_config_dict
    /\ type_to_config_dict[index_struct.type] # config
    /\ config.index_struct_id = index_struct.id

(***************************************************************************)
(* C5: built from a list holding a config with id "A" of type T and an     *)
(* id-less config of type T, in either order, a struct of type T whose id  *)
(* is not "A" resolves to the id-less config, never to the one keyed "A".  *)
(***************************************************************************)
C5_OtherIdResolvesToTypeConfig ==
    (/\ ConfigResolved
     /\ index_struct.id # "A"
     /\ \E i, j \in 1..Len(query_configs) :
           /\ query_configs[i].index_struct_id = "A"
           /\ query_configs[i].index_struct_type = index_struct.type
           /\ query_configs[j].index_struct_id = NoneVal
           /\ query_configs[j].index_struct_type = index_struct.type)
    => /\ config.index_struct_id = NoneVal
       /\ config.index_struct_type = index_struct.type

(***************************************************************************)
(* C6: for a struct whose (type, mode) pair has no class in the registry,  *)
(* query and aquery raise before any step that can reach the LLM: no query *)
(* transform applied, no combiner run, no query object invoked.            *)
(***************************************************************************)
C6_RegistryErrorBeforeAnyStep ==
    (qr_pc = "error" /\ qr_error = Error("KeyError", "_get_query_obj"))
    => LogPositions({"transform", "combiner.run", "query_obj.query",
                     "query_obj.aquery"}) = {}

(***************************************************************************)
(* C7: on the sync path query invokes the resolved combiner's run exactly  *)
(* once, with the constructed query object and the query bundle, returns   *)
(* that Response unchanged, and itself calls neither the query transform   *)
(* nor the query object's query method.                                    *)
(***************************************************************************)
C7_SyncRunsCombinerOnce ==
    qr_path = "sync" =>
        /\ \A k \in LogPositions({"transform", "query_obj.query", "query_obj.aquery"}) :
              qr_log[k].by # "runner"
        /\ Cardinality(LogPositions({"combiner.run"})) <= 1
        /\ qr_pc = "done" =>
              \E k \in LogPositions({"combiner.run"}) :
                 /\ qr_log[k].by = "runner"
                 /\ qr_log[k].what = ExpectedCombinerKind(index_struct)
                 /\ qr_log[k].obj = loc.query_obj
                 /\ qr_log[k].obj.built
                 /\ qr_log[k].obj.cls =
                       <<index_struct.type, ExpectedConfig(index_struct).query_mode>>
                 /\ qr_log[k].bundle = AsBundle(qr_input)
                 /\ \A j \in 1..Len(qr_log) : j < k => qr_log[j].op = "get_combiner"
                 /\ qr_log[Len(qr_log)].by = "combiner"
                 /\ qr_response = ObjResponse(qr_log[Len(qr_log)].obj,
                                              qr_log[Len(qr_log)].bundle)

\* a finished sync query on a bare string that ran the runner's default combiner
C7_Witness ==
    /\ qr_path = "sync"
    /\ qr_pc = "done"
    /\ qr_input.kind = "str"
    /\ config.query_combiner = NoneVal
    /\ qr_response.built

(***************************************************************************)
(* C8: on the async path aquery never resolves or invokes a combiner (no   *)
(* config override, no runner default): it applies the resolved transform  *)
(* exactly once and then awaits the query object's aquery on the           *)
(* transformed bundle.                                                     *)
(***************************************************************************)
C8_AsyncBypassesCombiner ==
    qr_path = "async" =>
        /\ LogPositions({"get_combiner", "combiner.run"}) = {}
        /\ loc.query_combiner = NoCombiner
        /\ Cardinality(LogPositions({"transform"})) <= 1
        /\ qr_pc = "done" =>
              /\ Len(qr_log) = 2
              /\ qr_log[1].op = "transform"
              /\ qr_log[1].what = ExpectedTransform(index_struct)
              /\ qr_log[1].bundle = qr_input
              /\ qr_log[2].op = "query_obj.aquery"
              /\ qr_log[2].obj.built
              /\ qr_log[2].bundle = ApplyTransform(ExpectedTransform(index_struct), qr_input)
              /\ qr_response = ObjResponse(qr_log[2].obj, qr_log[2].bundle)

\* a finished async query whose config overrides both transform and combiner
C8_Witness ==
    /\ qr_path = "async"
    /\ qr_pc = "done"
    /\ config.query_transform = "T1"
    /\ config.query_combiner = "C1"
    /\ runner_combiner = "C0"

(***************************************************************************)
(* C9: for each of prompt_helper, llm_predictor and embed_model the query  *)
(* object is built with the config's value when the key is in the config's *)
(* query_kwargs and with the runner's own default when it is absent; the   *)
(* config's query_kwargs mapping is left unmodified.                       *)
(***************************************************************************)
C9_KwargsFilledWithDefaults ==
    (\/ qr_pc \in {"make_bundle", "run", "await", "done"}
     \/ qr_pc = "error" /\ qr_error.at = "_get_query_kwargs")
    => /\ loc.query_obj.built
       /\ \A k \in Range(KwargKeys) :
             /\ k \in DOMAIN loc.query_obj.kwargs
             /\ loc.query_obj.kwargs[k] =
                   IF k \in DOMAIN config.query_kwargs THEN config.query_kwargs[k]
                   ELSE <<"runner", k>>
       /\ config = ExpectedConfig(index_struct)

(***************************************************************************)
(* C10: get_chunk_size_given_prompt returns                                *)
(* floor((max_input_size - prompt_tokens - num_output) / num_chunks)       *)
(* - padding for every combination of integer inputs (num_chunks >= 1),    *)
(* and the minimum of that value and embedding_limit when it is set.       *)
(***************************************************************************)
\* the floor of x / n for n >= 1: the integer q with q * n <= x < (q + 1) * n
FloorQuotient(x, n) ==
    CHOOSE q \in -(MaxPromptTokens + MaxNumOutput + 1)..(MaxWindow + 1) :
        q * n <= x /\ x < (q + 1) * n

C10_ChunkSizeFormula ==
    (/\ ph_op = "get_chunk_size_given_prompt"
     /\ ph_args.num_chunks >= 1
     /\ ph_args.padding.some)
    => LET expected ==
               FloorQuotient(max_input_size - ph_args.num_prompt_tokens - num_output,
                             ph_args.num_chunks) - ph_args.padding.v
       IN /\ ph_error = ""
          /\ ph_result = IF embedding_limit.some
                         THEN (IF expected <= embedding_limit.v THEN expected
                               ELSE embedding_limit.v)
                         ELSE expected

\* a call whose budget is negative and not a multiple of num_chunks, and one capped
C10_Witness ==
    /\ ph_op = "get_chunk_size_given_prompt"
    /\ ph_args.num_chunks = 2
    /\ ph_args.padding = Some(1)
    /\ max_input_size - ph_args.num_prompt_tokens - num_output = -3
    /\ ph_result = -3
    /\ embedding_limit.some

(***************************************************************************)
(* C11: whenever the chunk size a PromptHelper operation computed is zero  *)
(* or negative, the operation ends in an error: it returns no chunk size,  *)
(* no splitter and no truncated text.                                      *)
(***************************************************************************)
C11_NonPositiveChunkSizeIsError ==
    (ph_op # "" /\ chunk_size.some /\ chunk_size.v <= 0) => ph_error # ""

(***************************************************************************)
(* C12: for get_text_from_nodes called with a prompt and n >= 1 nodes, the *)
(* length of the returned text plus the prompt's tokens plus num_output    *)
(* never exceeds max_input_size.                                           *)
(***************************************************************************)
C12_JoinedTextFitsWindow ==
    (/\ ph_op = "get_text_from_nodes"
     /\ prompt.some
     /\ Len(node_list) >= 1
     /\ ph_error = "")
    => Len(ph_text) + prompt.v + num_output <= max_input_size

\* the same bound for the calls whose chunk size is not negative
C12_FitsWhenChunkSizeNotNegative ==
    (/\ ph_op = "get_text_from_nodes"
     /\ prompt.some
     /\ Len(node_list) >= 1
     /\ ph_error = ""
     /\ chunk_size.v >= 0)
    => Len(ph_text) + prompt.v + num_output <= max_input_size

(***************************************************************************)
(* C13: get_numbered_text_from_nodes on k >= 1 nodes returns k entries in  *)
(* node order, the i-th being "(i) " followed by the i-th node's text,     *)
(* cut to the chunk size computed with padding 5 when a prompt is given.   *)
(***************************************************************************)
Digit(i) == CASE i = 1 -> "1" [] i = 2 -> "2" [] i = 3 -> "3" [] OTHER -> "?"

NumberedEntry(i) ==
    LET entry == <<"(", Digit(i), ")", " ">> \o node_list[i]
    IN IF prompt.some
       THEN LET n == FloorQuotient(max_input_size - prompt.v - num_output,
                                   Len(node_list)) - 5
                cut == IF embedding_limit.some /\ embedding_limit.v < n
                       THEN embedding_limit.v ELSE n
            IN SubSeq(entry, 1, IF cut >= 0 THEN Min(cut, Len(entry))
                                ELSE Max(Len(entry) + cut, 0))
       ELSE entry

C13_NumberedEntriesInOrder ==
    (ph_op = "get_numbered_text_from_nodes" /\ Len(node_list) >= 1)
    => /\ ph_error = ""
       /\ ph_text = Join([i \in 1..Len(node_list) |-> NumberedEntry(i)], <<"\n", "\n">>)

(***************************************************************************)
(* DocumentStore (gpt_index/docstore.py)                                   *)
(***************************************************************************)
\* type key: used to store type of document
TYPE_KEY == "__type__"

\* a Document or an IndexStruct: its class and its dataclass fields
Doc(cls, doc_id, text) == [cls |-> cls, doc_id |-> doc_id, text |-> text]
NoDoc == Doc("", NoneVal, "")

\* the documents and index structs handed to the store
DocPool ==
    { Doc("Document", "a", "x"), Doc("IndexGraph", "a", "y"),
      Doc("IndexList", "b", "x"), Doc("Document", NoneVal, "z") }

DocLists == UNION {[1..n -> DocPool] : n \in 0..MaxDocs}

\* the ids get_new_id draws from
GenIds == {"g1", "g2"}

\* doc.is_doc_id_none
IsDocIdNone(doc) == doc.doc_id = NoneVal

\* doc.get_type(): "Document" for a Document, the struct type of an IndexStruct
GetType(doc) ==
    CASE doc.cls = "Document" -> "Document"
      [] doc.cls = "IndexGraph" -> "tree"
      [] doc.cls = "IndexList" -> "list"

\* doc.to_dict(): the fields, without the class
ToDict(doc) == [k \in {"doc_id", "text"} |-> IF k = "doc_id" THEN doc.doc_id ELSE doc.text]

\* cls.from_dict(doc_dict)
FromDict(cls, doc_dict) == Doc(cls, doc_dict["doc_id"], doc_dict["text"])

\* the type_to_struct registries load_from_dict is given
Registries ==
    { [t \in tags |-> IF t = "tree" THEN "IndexGraph" ELSE "IndexList"] :
        tags \in SUBSET {"tree", "list"} }

\* d[key] = value
DictSet(d, key, value) == [k \in DOMAIN d \cup {key} |-> IF k = key THEN value ELSE d[k]]

\* after d.pop(key, None)
DictPop(d, key) == [k \in DOMAIN d \ {key} |-> d[k]]

\* d.get(key, None) of a dict of strings
DictGet(d, key) == IF key \in DOMAIN d THEN d[key] ELSE NoneVal

\* faulty variant: the dict form without the type tag
SerializeUntagged(store) == [docs |-> [id \in DOMAIN store |-> ToDict(store[id])]]

\* DocumentStore.serialize_to_dict
SerializeToDict(store) ==
    [docs |-> [id \in DOMAIN store |-> DictSet(ToDict(store[id]), TYPE_KEY, GetType(store[id]))]]

\* DocumentStore.load_from_dict over the items in the order given:
\* [error, store, dict], dict being the argument as the call leaves it
RECURSIVE LoadItems(_, _, _, _)
LoadItems(docs_dict, type_to_struct, order, docs_obj_dict) ==
    IF order = << >>
    THEN [error |-> "", store |-> docs_obj_dict, dict |-> docs_dict]
    ELSE LET doc_id == Head(order)
             doc_type == DictGet(docs_dict.docs[doc_id], TYPE_KEY)
             doc_dict == DictPop(docs_dict.docs[doc_id], TYPE_KEY)
             popped == [docs |-> [docs_dict.docs EXCEPT ![doc_id] = doc_dict]]
         IN IF doc_type = "Document" \/ doc_type = NoneVal
            THEN LoadItems(popped, type_to_struct, Tail(order),
                           DictSet(docs_obj_dict, doc_id, FromDict("Document", doc_dict)))
            ELSE IF doc_type \notin DOMAIN type_to_struct
            THEN [error |-> "ValueError", store |-> << >>, dict |-> popped]
            ELSE LoadItems(popped, type_to_struct, Tail(order),
                           DictSet(docs_obj_dict, doc_id,
                                   FromDict(type_to_struct[doc_type], doc_dict)))

\* the orders a dict's items can come in
ItemOrders(d) == {order \in DistinctSeqs(DOMAIN d, Cardinality(DOMAIN d)) : Range(order) = DOMAIN d}

\* faulty variant: a store that keeps the document it already holds under the id
StoreDocKeepFirst(store, doc) ==
    IF doc.doc_id \in DOMAIN store THEN store ELSE DictSet(store, doc.doc_id, doc)

\* self.docs[doc.get_doc_id()] = doc
StoreDoc(store, doc) == DictSet(store, doc.doc_id, doc)

\* DocumentStore.add_documents, new_ids being what get_new_id returns in turn:
\* [error, docs]; the documents stored before a raise stay stored
RECURSIVE AddDocuments(_, _, _, _)
AddDocuments(store, list, generate_id, new_ids) ==
    IF list = << >>
    THEN [error |-> "", docs |-> store]
    ELSE LET doc == Head(list)
         IN IF IsDocIdNone(doc)
            THEN IF generate_id
                 THEN AddDocuments(StoreDoc(store, [doc EXCEPT !.doc_id = Head(new_ids)]),
                                   Tail(list), generate_id, Tail(new_ids))
                 ELSE [error |-> "ValueError", docs |-> store]
            ELSE AddDocuments(StoreDoc(store, doc), Tail(list), generate_id, new_ids)

\* faulty variant: a delete that raises nothing
DeleteDocumentQuiet(store, doc_id, raise_error) ==
    [error |-> "",
     docs |-> DictPop(store, doc_id),
     ret |-> IF doc_id \in DOMAIN store THEN store[doc_id] ELSE NoDoc]

\* DocumentStore.delete_document: [error, docs, ret]
DeleteDocument(store, doc_id, raise_error) ==
    [error |-> IF doc_id \notin DOMAIN store /\ raise_error THEN "ValueError" ELSE "",
     docs |-> DictPop(store, doc_id),
     ret |-> IF doc_id \in DOMAIN store THEN store[doc_id] ELSE NoDoc]

\* DocumentStore.get_document: [error, ret]
GetDocument(store, doc_id, raise_error) ==
    [error |-> IF doc_id \notin DOMAIN store /\ raise_error THEN "ValueError" ELSE "",
     ret |-> IF doc_id \in DOMAIN store THEN store[doc_id] ELSE NoDoc]

\* the ids looked up and deleted
LookupIds == {"a", "b", "c", "g1"}

\* the documents of a list that have no id
WithoutId(list) == {i \in 1..Len(list) : IsDocIdNone(list[i])}

\* what n calls of get_new_id in a row can return: ids that are not keys yet
NewIds(store, n) == {ids \in DistinctSeqs(GenIds \ DOMAIN store, n) : Len(ids) = n}

\* DocumentStore.__len__
StoreLen(store) == Cardinality(DOMAIN store)

\* the arguments of a call
StoreArgs(list, generate_id, doc_id, raise_error, type_to_struct) ==
    [docs |-> list, generate_id |-> generate_id, doc_id |-> doc_id,
     raise_error |-> raise_error, type_to_struct |-> type_to_struct]
NoStoreArgs == StoreArgs(<< >>, TRUE, "", TRUE, << >>)

EmptyStore == << >>

\* the dict serialized (made), the store it was of, the loads made from it;
\* before any serialization
NoDump == [made |-> FALSE, dict |-> [docs |-> << >>], of |-> EmptyStore, loads |-> 0]

\* the latest document added under each explicit id of a list, on top of latest
RECURSIVE LastWrite(_, _)
LastWrite(latest, list) ==
    IF list = << >> THEN latest
    ELSE LastWrite(IF Head(list).doc_id = NoneVal THEN latest
                   ELSE DictSet(latest, Head(list).doc_id, Head(list)),
                   Tail(list))

StoreInit ==
    /\ docs = EmptyStore
    /\ docs_before = EmptyStore
    /\ ds_op = ""
    /\ ds_args = NoStoreArgs
    /\ ds_ret = NoDoc
    /\ ds_error = ""
    /\ ds_latest = EmptyStore
    /\ ds_plain = TRUE
    /\ dumped = NoDump
    /\ loaded = EmptyStore

\* the store before any call, as the other specifications hold it
StoreIdle == StoreInit

\* a call of add_documents(docs, generate_id)
CallAddDocuments ==
    \E list \in DocLists, generate_id \in BOOLEAN :
    \E new_ids \in NewIds(docs, IF generate_id THEN Cardinality(WithoutId(list)) ELSE 0) :
        LET out == AddDocuments(docs, list, generate_id, new_ids)
        IN /\ docs' = out.docs
           /\ docs_before' = docs
           /\ ds_op' = "add_documents"
           /\ ds_args' = StoreArgs(list, generate_id, "", TRUE, << >>)
           /\ ds_ret' = NoDoc
           /\ ds_error' = out.error
           /\ ds_plain' = (ds_plain /\ WithoutId(list) = {})
           /\ ds_latest' = IF ds_plain' THEN LastWrite(ds_latest, list) ELSE EmptyStore
           /\ dumped' = NoDump
           /\ loaded' = EmptyStore
           /\ UNCHANGED notStore

\* a call of get_document(doc_id, raise_error)
CallGetDocument ==
    \E doc_id \in LookupIds, raise_error \in BOOLEAN :
        LET out == GetDocument(docs, doc_id, raise_error)
        IN /\ docs_before' = docs
           /\ ds_op' = "get_document"
           /\ ds_args' = StoreArgs(<< >>, TRUE, doc_id, raise_error, << >>)
           /\ ds_ret' = out.ret
           /\ ds_error' = out.error
           /\ ds_plain' = FALSE
           /\ ds_latest' = EmptyStore
           /\ dumped' = NoDump
           /\ loaded' = EmptyStore
           /\ UNCHANGED docs
           /\ UNCHANGED notStore

\* a call of delete_document(doc_id, raise_error)
CallDeleteDocument ==
    \E doc_id \in LookupIds, raise_error \in BOOLEAN :
        LET out == DeleteDocument(docs, doc_id, raise_error)
        IN /\ docs' = out.docs
           /\ docs_before' = docs
           /\ ds_op' = "delete_document"
           /\ ds_args' = StoreArgs(<< >>, TRUE, doc_id, raise_error, << >>)
           /\ ds_ret' = out.ret
           /\ ds_error' = out.error
           /\ ds_plain' = FALSE
           /\ ds_latest' = EmptyStore
           /\ dumped' = NoDump
           /\ loaded' = EmptyStore
           /\ UNCHANGED notStore

\* a call of serialize_to_dict()
CallSerializeToDict ==
    /\ docs_before' = docs
    /\ ds_op' = "serialize_to_dict"
    /\ ds_args' = NoStoreArgs
    /\ ds_ret' = NoDoc
    /\ ds_error' = ""
    /\ ds_plain' = FALSE
    /\ ds_latest' = EmptyStore
    /\ dumped' = [made |-> TRUE, dict |-> SerializeToDict(docs), of |-> docs, loads |-> 0]
    /\ loaded' = EmptyStore
    /\ UNCHANGED docs
    /\ UNCHANGED notStore

\* a call of DocumentStore.load_from_dict(docs_dict, type_to_struct) on the
\* dict serialized last; the call pops the type key off the entries it reads
CallLoadFromDict ==
    \E type_to_struct \in Registries, order \in ItemOrders(dumped.dict.docs) :
        LET out == LoadItems(dumped.dict, type_to_struct, order, EmptyStore)
        IN /\ dumped.made
           /\ dumped.loads < MaxLoads
           /\ docs_before' = docs
           /\ ds_op' = "load_from_dict"
           /\ ds_args' = StoreArgs(<< >>, TRUE, "", TRUE, type_to_struct)
           /\ ds_ret' = NoDoc
           /\ ds_error' = out.error
           /\ ds_plain' = FALSE
           /\ ds_latest' = EmptyStore
           /\ dumped' = [dumped EXCEPT !.dict = out.dict, !.loads = @ + 1]
           /\ loaded' = out.store
           /\ UNCHANGED docs
           /\ UNCHANGED notStore

StoreNext ==
    \/ CallAddDocuments
    \/ CallGetDocument
    \/ CallDeleteDocument
    \/ CallSerializeToDict
    \/ CallLoadFromDict

(***************************************************************************)
(* C14: after any sequence of add_documents calls with explicit ids the    *)
(* store maps each id to the document of the latest add with that id and   *)
(* its length is the number of distinct ids added; adding ids that are     *)
(* already keys raises nothing and leaves the length as it was.            *)
(***************************************************************************)
\* the ids of the documents of a list
IdsOf(list) == {list[i].doc_id : i \in 1..Len(list)}

C14_LastWriteWins ==
    /\ (ds_plain /\ ds_op = "add_documents")
       => /\ ds_error = ""
          /\ \A id \in DOMAIN ds_latest : id \in DOMAIN docs /\ docs[id] = ds_latest[id]
          /\ StoreLen(docs) = Cardinality(DOMAIN ds_latest)
    /\ (/\ ds_op = "add_documents"
        /\ NoneVal \notin IdsOf(ds_args.docs)
        /\ IdsOf(ds_args.docs) \subseteq DOMAIN docs_before)
       => /\ ds_error = ""
          /\ StoreLen(docs) = StoreLen(docs_before)

\* an index struct added under the id a document was stored under, next to another id
C14_Witness ==
    /\ ds_plain
    /\ ds_op = "add_documents"
    /\ DOMAIN docs_before = {"a", "b"}
    /\ docs_before["a"] = Doc("Document", "a", "x")
    /\ docs["a"] = Doc("IndexGraph", "a", "y")
    /\ StoreLen(docs) = 2

(***************************************************************************)
(* C15: inserting a document whose id is already a key of the store is a   *)
(* data error: add_documents raises and does not store the document.       *)
(***************************************************************************)
\* the positions of a list whose document has an id that was a key already
Duplicates(list, store) ==
    {i \in 1..Len(list) : list[i].doc_id # NoneVal /\ list[i].doc_id \in DOMAIN store}

C15_DuplicateIdRaises ==
    (ds_op = "add_documents" /\ Duplicates(ds_args.docs, docs_before) # {})
    => /\ ds_error # ""
       /\ \A i \in Duplicates(ds_args.docs, docs_before) :
              docs[ds_args.docs[i].doc_id] = docs_before[ds_args.docs[i].doc_id]

(***************************************************************************)
(* C15 as the code has it: add_documents raises only for a document        *)
(* without id when generate_id is false; a document whose id is already a  *)
(* key replaces the stored one (the last of the list with that id wins).   *)
(***************************************************************************)
C15_DuplicateIdOverwrites ==
    ds_op = "add_documents"
    => /\ ds_error # "" => (~ds_args.generate_id /\ NoneVal \in IdsOf(ds_args.docs))
       /\ ds_error = ""
          => \A i \in Duplicates(ds_args.docs, docs_before) :
                 (\A j \in (i + 1)..Len(ds_args.docs) :
                     ds_args.docs[j].doc_id # ds_args.docs[i].doc_id)
                 => docs[ds_args.docs[i].doc_id] = ds_args.docs[i]

\* a document stored over a different one that had its id
C15_Witness ==
    /\ ds_op = "add_documents"
    /\ ds_error = ""
    /\ \E i \in Duplicates(ds_args.docs, docs_before) :
           /\ docs_before[ds_args.docs[i].doc_id] # ds_args.docs[i]
           /\ docs[ds_args.docs[i].doc_id] = ds_args.docs[i]

(***************************************************************************)
(* C16: delete_document on a present id returns the stored document and    *)
(* removes exactly that key; on an absent id it raises ValueError when     *)
(* raise_error is true and returns None when it is false, and the store is *)
(* left as it was.                                                         *)
(***************************************************************************)
C16_DeleteDocument ==
    ds_op = "delete_document"
    => IF ds_args.doc_id \in DOMAIN docs_before
       THEN /\ ds_error = ""
            /\ ds_ret = docs_before[ds_args.doc_id]
            /\ DOMAIN docs = DOMAIN docs_before \ {ds_args.doc_id}
            /\ \A id \in DOMAIN docs : docs[id] = docs_before[id]
       ELSE /\ DOMAIN docs = DOMAIN docs_before
            /\ \A id \in DOMAIN docs : docs[id] = docs_before[id]
            /\ ds_ret = NoDoc
            /\ ds_error = IF ds_args.raise_error THEN "ValueError" ELSE ""

\* a raising delete of an id the store of two documents does not hold
C16_Witness ==
    /\ ds_op = "delete_document"
    /\ ds_args.doc_id = "c"
    /\ ds_args.raise_error
    /\ ds_error = "ValueError"
    /\ StoreLen(docs) = 2

(***************************************************************************)
(* C17: loading the dict serialize_to_dict returned, with a registry that  *)
(* holds the class of every index struct of the store, yields a store with *)
(* the same ids, each mapped to an entry of the same class and content.    *)
(***************************************************************************)
Registered(cls, type_to_struct) ==
    cls = "Document" \/ \E t \in DOMAIN type_to_struct : type_to_struct[t] = cls

C17_RoundTrip ==
    (/\ ds_op = "load_from_dict"
     /\ dumped.loads = 1
     /\ \A id \in DOMAIN dumped.of : Registered(dumped.of[id].cls, ds_args.type_to_struct))
    => /\ ds_error = ""
       /\ DOMAIN loaded = DOMAIN dumped.of
       /\ \A id \in DOMAIN loaded :
              /\ loaded[id].cls = dumped.of[id].cls
              /\ loaded[id].doc_id = dumped.of[id].doc_id
              /\ loaded[id].text = dumped.of[id].text

\* a store of a document with a generated id and two index structs, loaded back
C17_Witness ==
    /\ ds_op = "load_from_dict"
    /\ dumped.loads = 1
    /\ ds_error = ""
    /\ {dumped.of[id].cls : id \in DOMAIN dumped.of} = {"Document", "IndexGraph", "IndexList"}
    /\ DOMAIN loaded = DOMAIN dumped.of

(***************************************************************************)
(* C18: on a graph with a cycle, as long as every retrieve of a recursive  *)
(* query returns an IndexNode (the cycle is followed), the query does not  *)
(* complete: nothing is synthesized and nothing is returned, every         *)
(* _query_index call made is still on the stack, the levels on the stack   *)
(* count up from 0, and the only state without a next step is the one at   *)
(* the deepest level explored.                                             *)
(***************************************************************************)
CyclicGraphs == {"cycle", "self"}

EveryRetrieveHasIndexNode ==
    \A k \in 1..Len(calls) :
        calls[k].op = "retrieve"
        => \E i \in 1..Len(calls[k].nodes) : calls[k].nodes[i].kind = "IndexNode"

C18_CycleNeverCompletes ==
    (graph \in CyclicGraphs /\ recursive /\ EveryRetrieveHasIndexNode)
    => /\ result = NoResponse
       /\ \A k \in 1..Len(calls) : calls[k].op # "synthesize"
       /\ \A d \in 1..Len(stack) : stack[d].level = d - 1 /\ stack[d].response = NoResponse
       /\ Len(stack) = Cardinality({k \in 1..Len(calls) : calls[k].op = "query_index"})
       /\ (stack # <<>> /\ ~ENABLED GraphNext) => Top.level = MaxLevel

\* the self-referential root queried down to the deepest level explored
C18_Witness ==
    /\ graph = "self"
    /\ recursive
    /\ EveryRetrieveHasIndexNode
    /\ Len(stack) = MaxLevel + 1
    /\ Top.level = MaxLevel
    /\ \A d \in 1..Len(stack) : stack[d].index_id = "root"
    /\ Top.nodes # <<>>

(***************************************************************************)
(* QueryGraphQueryEngine (llama_index/query_engine/                        *)
(* query_graph_query_engine.py)                                            *)
(***************************************************************************)
\* the query ids of the graph queried: root -> mid -> leaf, root -> leaf
QueryIds == {"root", "mid", "leaf"}

\* the query_engine_dict maps the engine is built with: each id maps to a
\* RetrieverQueryEngine ("retriever") or another BaseQueryEngine ("other"),
\* and the leaf may have no entry
EngineDicts ==
    UNION {[ids -> {"retriever", "other"}] : ids \in {QueryIds, QueryIds \ {"leaf"}}}

\* query_engine.retrieve(query_bundle) of the RetrieverQueryEngine of an id:
\* any list of at most MaxRetrieved of its nodes
EngineRetrieveResults(query_id) ==
    DistinctSeqs(IndexContents("tree", query_id), MaxRetrieved)

\* query_engine.query(query_bundle) of an engine that is no RetrieverQueryEngine
EngineQuery(query_id) ==
    Response(<<"other", query_id>>, <<PlainNode(<<"o", query_id>>, 0)>>)

\* NodeWithScore(node=TextNode(text=text), score=1.0), text being the child's response
TextNodeOfResponse(response) == PlainNode(response.response, 1)

\* the additional source nodes _query_rec hands to synthesize: the literal []
AdditionalSourceNodes == <<>>

RecFrame(query_id) ==
    [query_id |-> query_id, pc |-> "enter", nodes |-> <<>>, i |-> 1,
     nodes_for_synthesis |-> <<>>, response |-> NoResponse]

RecEvent(op, query_id, level, nodes, response) ==
    [op |-> op, query_id |-> query_id, level |-> level, nodes |-> nodes,
     response |-> response]

RecTop == qg_stack[Len(qg_stack)]
SetRecTop(f) == [qg_stack EXCEPT ![Len(qg_stack)] = f]

QueryGraphInit ==
    /\ query_engine_dict \in EngineDicts
    /\ qg_stack = <<>>
    /\ qg_calls = <<>>
    /\ qg_result = NoResponse
    /\ qg_error = ""

\* the engine before any query, as the other specifications hold it
QueryGraphIdle ==
    /\ query_engine_dict = [id \in QueryIds |-> "retriever"]
    /\ qg_stack = <<>>
    /\ qg_calls = <<>>
    /\ qg_result = NoResponse
    /\ qg_error = ""

\* _query: self._query_rec(query_bundle, query_id=None)
RecQuery ==
    /\ qg_stack = <<>>
    /\ qg_calls = <<>>
    /\ qg_stack' = <<RecFrame(ResolveIndexId(""))>>
    /\ qg_calls' = <<RecEvent("query_rec", ResolveIndexId(""), 0, <<>>, NoResponse)>>
    /\ UNCHANGED <<query_engine_dict, qg_result, qg_error>>
    /\ UNCHANGED notQueryGraph

\* query_engine = self._query_engine_dict[query_id] with no entry for query_id
RecKeyError ==
    /\ qg_stack # <<>>
    /\ RecTop.pc = "enter"
    /\ RecTop.query_id \notin DOMAIN query_engine_dict
    /\ qg_stack' = <<>>
    /\ qg_error' = "KeyError"
    /\ UNCHANGED <<query_engine_dict, qg_calls, qg_result>>
    /\ UNCHANGED notQueryGraph

\* a RetrieverQueryEngine: nodes = query_engine.retrieve(query_bundle)
RecRetrieve ==
    /\ qg_stack # <<>>
    /\ RecTop.pc = "enter"
    /\ RecTop.query_id \in DOMAIN query_engine_dict
    /\ query_engine_dict[RecTop.query_id] = "retriever"
    /\ \E nodes \in EngineRetrieveResults(RecTop.query_id) :
          /\ qg_stack' = SetRecTop([RecTop EXCEPT !.nodes = nodes, !.pc = "loop"])
          /\ qg_calls' = Append(qg_calls, RecEvent("retrieve", RecTop.query_id,
                                                   Len(qg_stack) - 1, nodes, NoResponse))
    /\ UNCHANGED <<query_engine_dict, qg_result, qg_error>>
    /\ UNCHANGED notQueryGraph

\* any other engine: return query_engine.query(query_bundle)
RecQueryOther ==
    /\ qg_stack # <<>>
    /\ RecTop.pc = "enter"
    /\ RecTop.query_id \in DOMAIN query_engine_dict
    /\ query_engine_dict[RecTop.query_id] = "other"
    /\ qg_stack' = SetRecTop([RecTop EXCEPT !.response = EngineQuery(RecTop.query_id),
                                            !.pc = "done"])
    /\ qg_calls' = Append(qg_calls, RecEvent("query", RecTop.query_id, Len(qg_stack) - 1,
                                             <<>>, EngineQuery(RecTop.query_id)))
    /\ UNCHANGED <<query_engine_dict, qg_result, qg_error>>
    /\ UNCHANGED notQueryGraph

\* the loop on a TextNode: node_to_add = node_with_score
RecKeepTextNode ==
    /\ qg_stack # <<>>
    /\ RecTop.pc = "loop"
    /\ RecTop.i <= Len(RecTop.nodes)
    /\ ~IsIndexNode(RecTop.nodes[RecTop.i])
    /\ qg_stack' = SetRecTop([RecTop EXCEPT
                                !.nodes_for_synthesis = Append(@, RecTop.nodes[RecTop.i]),
                                !.i = @ + 1])
    /\ UNCHANGED <<query_engine_dict, qg_calls, qg_result, qg_error>>
    /\ UNCHANGED notQueryGraph

\* the loop on an IndexNode: self._query_rec(query_bundle, query_id=node.id)
RecDescend ==
    /\ qg_stack # <<>>
    /\ RecTop.pc = "loop"
    /\ RecTop.i <= Len(RecTop.nodes)
    /\ IsIndexNode(RecTop.nodes[RecTop.i])
    /\ LET id == ResolveIndexId(RecTop.nodes[RecTop.i].index_id) IN
          /\ qg_stack' = Append(SetRecTop([RecTop EXCEPT !.pc = "await"]), RecFrame(id))
          /\ qg_calls' = Append(qg_calls, RecEvent("query_rec", id, Len(qg_stack), <<>>,
                                                   NoResponse))
    /\ UNCHANGED <<query_engine_dict, qg_result, qg_error>>
    /\ UNCHANGED notQueryGraph

\* the recursive call returned: a TextNode of the child's response is added
\* (nothing else of the child's response is read)
RecReturn ==
    /\ Len(qg_stack) > 1
    /\ RecTop.pc = "done"
    /\ LET parent == qg_stack[Len(qg_stack) - 1]
       IN qg_stack' = Append(SubSeq(qg_stack, 1, Len(qg_stack) - 2),
                             [parent EXCEPT
                                !.pc = "loop",
                                !.nodes_for_synthesis =
                                    Append(@, TextNodeOfResponse(RecTop.response)),
                                !.i = @ + 1])
    /\ qg_calls' = Append(qg_calls, RecEvent("return", RecTop.query_id, Len(qg_stack) - 1,
                                             <<>>, RecTop.response))
    /\ UNCHANGED <<query_engine_dict, qg_result, qg_error>>
    /\ UNCHANGED notQueryGraph

\* response = query_engine.synthesize(query_bundle, nodes_for_synthesis, [])
RecSynthesize ==
    /\ qg_stack # <<>>
    /\ RecTop.pc = "loop"
    /\ RecTop.i > Len(RecTop.nodes)
    /\ LET response == Synthesize(RecTop.nodes_for_synthesis, AdditionalSourceNodes)
       IN /\ qg_stack' = SetRecTop([RecTop EXCEPT !.response = response, !.pc = "done"])
          /\ qg_calls' = Append(qg_calls,
                                RecEvent("synthesize", RecTop.query_id, Len(qg_stack) - 1,
                                         RecTop.nodes_for_synthesis, response))
    /\ UNCHANGED <<query_engine_dict, qg_result, qg_error>>
    /\ UNCHANGED notQueryGraph

\* _query returns what the outermost _query_rec returned
RecFinish ==
    /\ Len(qg_stack) = 1
    /\ RecTop.pc = "done"
    /\ qg_result' = RecTop.response
    /\ qg_stack' = <<>>
    /\ UNCHANGED <<query_engine_dict, qg_calls, qg_error>>
    /\ UNCHANGED notQueryGraph

QueryGraphNext ==
    \/ RecQuery
    \/ RecKeyError
    \/ RecRetrieve
    \/ RecQueryOther
    \/ RecKeepTextNode
    \/ RecDescend
    \/ RecReturn
    \/ RecSynthesize
    \/ RecFinish

(***************************************************************************)
(* C19: the Response returned for a root RetrieverQueryEngine lists as     *)
(* source nodes the nodes the root call synthesized from and the source    *)
(* nodes of every child response resolved for one of its IndexNodes.       *)
(***************************************************************************)
\* the responses of the _query_rec calls made for the root's IndexNodes
ResolvedChildren ==
    {qg_calls[k].response : k \in {p \in 1..Len(qg_calls) :
                                      qg_calls[p].op = "return" /\ qg_calls[p].level = 1}}

\* the nodes the root call handed to synthesize
RootSynthesized ==
    UNION {Range(qg_calls[k].nodes) : k \in {p \in 1..Len(qg_calls) :
                                        qg_calls[p].op = "synthesize" /\ qg_calls[p].level = 0}}

C19_SourceNodesAcrossLevels ==
    (/\ qg_result # NoResponse
     /\ query_engine_dict["root"] = "retriever")
    => /\ RootSynthesized \subseteq Range(qg_result.source_nodes)
       /\ \A child \in ResolvedChildren :
              Range(child.source_nodes) \subseteq Range(qg_result.source_nodes)

(***************************************************************************)
(* ToolInteractiveReflectionAgentWorker (llama_index/agent/introspective/  *)
(* reflective/tool_interactive_reflection.py)                              *)
(***************************************************************************)
\* TaskStepOutput(output, task_step, is_last, next_steps): is_last and the
\* number of next steps
Output(is_last, next_steps) == [returned |-> TRUE, is_last |-> is_last, next_steps |-> next_steps]
NoOutput == [returned |-> FALSE, is_last |-> FALSE, next_steps |-> 0]

\* the "count" a step adds up to before the run is cut off (max_iterations = 0
\* is never equal to a count that starts at 1)
MaxCount == MaxIterations + 1

\* the message histories a task comes with: the input, or an earlier exchange too
TaskMemories == {<<"user">>, <<"user", "assistant", "user">>}

\* is_done where run_step reads it: what the stopping callable returned, or
\* no value at all when stopping_callable is None (the name is never bound)
IsDoneBound == stopping_callable

\* is_last=is_done | (self.max_iterations == state["count"])
IsLast(is_done, n) == is_done \/ max_iterations = n

\* the body of run_step / arun_step after state["count"] += 1, n being the new
\* count, verdict what the stopping callable returns of the critique:
\* [error, new_memory, output]
StepOutcome(n, verdict) ==
    LET critiqued == Append(new_memory, "user") IN
    IF ~IsDoneBound
    THEN [error |-> "UnboundLocalError", new_memory |-> critiqued, output |-> NoOutput]
    ELSE IF verdict
    THEN [error |-> "", new_memory |-> critiqued, output |-> Output(IsLast(verdict, n), 0)]
    ELSE [error |-> "", new_memory |-> Append(critiqued, "assistant"),
          output |-> Output(IsLast(verdict, n), IF max_iterations = n THEN 0 ELSE 1)]

ReflectionInit ==
    /\ max_iterations \in 0..MaxIterations
    /\ stopping_callable \in BOOLEAN
    /\ new_memory = <<>>
    /\ sources = 0
    /\ count = 0
    /\ pending = 0
    /\ ra_op = ""
    /\ ra_verdict = "none"
    /\ ra_output = NoOutput
    /\ ra_error = ""

\* the worker before any task, as the other specifications hold it
ReflectionIdle ==
    /\ max_iterations = 0
    /\ stopping_callable = FALSE
    /\ new_memory = <<>>
    /\ sources = 0
    /\ count = 0
    /\ pending = 0
    /\ ra_op = ""
    /\ ra_verdict = "none"
    /\ ra_output = NoOutput
    /\ ra_error = ""

\* initialize_step(task): new memory with the task's messages, no sources, count 0
InitializeStep ==
    /\ ra_op = ""
    /\ \E messages \in TaskMemories : new_memory' = messages
    /\ sources' = 0
    /\ count' = 0
    /\ pending' = 1
    /\ ra_op' = "initialize_step"
    /\ UNCHANGED <<raConfig, ra_verdict, ra_output, ra_error>>
    /\ UNCHANGED notReflection

\* one step of the task, as run_step and arun_step both run it
Step ==
    /\ pending > 0
    /\ count < MaxCount
    /\ \E verdict \in (IF stopping_callable THEN BOOLEAN ELSE {FALSE}),
          critique_sources \in 0..MaxSources :
          LET out == StepOutcome(count + 1, verdict)
          IN /\ count' = count + 1
             /\ sources' = sources + critique_sources
             /\ new_memory' = out.new_memory
             /\ ra_verdict' = IF stopping_callable
                              THEN (IF verdict THEN "accepted" ELSE "rejected")
                              ELSE "none"
             /\ ra_output' = out.output
             /\ ra_error' = out.error
             /\ pending' = IF out.error = "" THEN out.output.next_steps ELSE 0
    /\ UNCHANGED raConfig
    /\ UNCHANGED notReflection

RunStep ==
    /\ ra_op' = "run_step"
    /\ Step

ARunStep ==
    /\ ra_op' = "arun_step"
    /\ Step

ReflectionNext ==
    \/ InitializeStep
    \/ RunStep
    \/ ARunStep

(***************************************************************************)
(* C20: for max_iterations >= 1, with or without a stopping callable, the  *)
(* chain of steps of a task ends after at most max_iterations steps: each  *)
(* step returns, with is_last true and no next step exactly when the       *)
(* stopping callable accepted the critique or the count of steps equals    *)
(* max_iterations, and with exactly one next step otherwise.               *)
(***************************************************************************)
StepRun == ra_op = "run_step" \/ ra_op = "arun_step"

C20_ChainEndsWithinMaxIterations ==
    max_iterations >= 1
    => /\ count <= max_iterations
       /\ StepRun
          => /\ ra_error = ""
             /\ ra_output.returned
             /\ IF ra_verdict = "accepted" \/ count = max_iterations
                THEN ra_output.is_last /\ ra_output.next_steps = 0 /\ pending = 0
                ELSE ~ra_output.is_last /\ ra_output.next_steps = 1 /\ pending = 1

\* the same statement for the workers built with a stopping callable
C20_HoldsWithStoppingCallable ==
    stopping_callable => C20_ChainEndsWithinMaxIterations

(***************************************************************************)
(* C21: PromptHelper.get_text_from_nodes over an empty node list with a    *)
(* prompt raises nothing and returns the empty text (zero retrieved nodes  *)
(* are no error on the way to synthesis).                                  *)
(***************************************************************************)
C21_EmptyNodeListGivesEmptyText ==
    (ph_op = "get_text_from_nodes" /\ node_list = <<>> /\ prompt.some)
    => (ph_error = "" /\ ph_text = <<>>)

\* the engine's half of the statement: a _query_index call that retrieved no
\* node synthesizes once, from the empty list
C21_EmptyRetrievalIsSynthesized ==
    /\ \A k \in SynthPositions : RetrievedAt(k) = <<>> => calls[k].nodes = <<>>
    /\ (GraphDone /\ \E r \in RetrievePositions : calls[r].level = 0 /\ calls[r].nodes = <<>>)
       => Cardinality(SynthPositions) = 1

(***************************************************************************)
(* C22: with recursive=True the list handed to synthesize at a level is    *)
(* the element-wise image of the retrieved list: same length, position i   *)
(* holds retrieved node i itself when it is a plain node, and a plain node *)
(* with the score of retrieved node i when that is an IndexNode.           *)
(***************************************************************************)
C22_ElementWiseImage ==
    recursive =>
        \A k \in SynthPositions :
            LET retrieved == RetrievedAt(k) IN
               /\ Len(calls[k].nodes) = Len(retrieved)
               /\ \A i \in 1..Len(retrieved) :
                     IF retrieved[i].kind = "IndexNode"
                     THEN /\ calls[k].nodes[i].kind = "Node"
                          /\ calls[k].nodes[i].score = retrieved[i].score
                     ELSE calls[k].nodes[i] = retrieved[i]

\* a level that retrieved an IndexNode first and a plain node second
C22_Witness ==
    /\ recursive
    /\ \E k \in SynthPositions :
          /\ Len(RetrievedAt(k)) = 2
          /\ RetrievedAt(k)[1].kind = "IndexNode"
          /\ RetrievedAt(k)[2].kind = "Node"
          /\ calls[k].nodes[1].score = RetrievedAt(k)[1].score

(***************************************************************************)
(* C23: in a recursive query the synthesize call of a level comes after    *)
(* the _query_index call of every IndexNode retrieved at that level has    *)
(* returned: between the level's own call and its synthesize there is one  *)
(* child call per retrieved IndexNode, and every call started in between   *)
(* (children and their descendants) has retrieved and synthesized before.  *)
(***************************************************************************)
\* the calls[p] with q < p < k made by op at the given level
Between(q, k, op, level) ==
    {p \in (q + 1)..(k - 1) : calls[p].op = op /\ calls[p].level = level}

C23_ChildrenReturnBeforeSynthesize ==
    recursive =>
        \A k \in SynthPositions :
            LET q == OwnCall(k)
                level == calls[k].level
                retrieved == RetrievedAt(k)
                index_nodes == {i \in 1..Len(retrieved) : retrieved[i].kind = "IndexNode"}
            IN /\ Cardinality(Between(q, k, "query_index", level + 1))
                     = Cardinality(index_nodes)
               /\ Cardinality(Between(q, k, "synthesize", level + 1))
                     = Cardinality(index_nodes)
               /\ \A p \in (q + 1)..(k - 1) :
                     calls[p].op = "query_index"
                     => /\ calls[p].level > level
                        /\ \E r \in Between(p, k, "retrieve", calls[p].level),
                              s \in Between(p, k, "synthesize", calls[p].level) :
                              /\ r < s
                              /\ calls[r].index_id = calls[p].index_id
                              /\ calls[s].index_id = calls[p].index_id

\* the root synthesized after a child that itself resolved a child
C23_Witness ==
    /\ recursive
    /\ \E k \in SynthPositions :
          /\ calls[k].level = 0
          /\ Between(OwnCall(k), k, "synthesize", 2) # {}
          /\ Between(OwnCall(k), k, "synthesize", 1) # {}

(***************************************************************************)
(* C24: on the acyclic graph a recursive query terminates: the root call   *)
(* has level 0, each descent has its parent's level plus 1, no level       *)
(* exceeds the longest IndexNode path from the root, a run stops only once *)
(* the response is returned, and the number of synthesize calls is then 1  *)
(* plus the number of IndexNodes retrieved over all levels.                *)
(***************************************************************************)
\* the indices an IndexNode of id's retrievers (its own or a custom one) names
TreeChildren(id) ==
    {n.index_id : n \in {c \in IndexContents("tree", id) \cup CustomContents(id) :
                             c.kind = "IndexNode"}}

\* the number of IndexNodes on the longest path from id, in at most fuel steps
RECURSIVE PathLength(_, _)
PathLength(id, fuel) ==
    IF fuel = 0 \/ TreeChildren(id) = {} THEN 0
    ELSE LET lengths == {PathLength(c, fuel - 1) : c \in TreeChildren(id)}
         IN 1 + CHOOSE l \in lengths : \A o \in lengths : o <= l

\* the longest IndexNode path from the root of the tree: root -> mid -> leaf
LongestPath == PathLength(root_id, Cardinality(IndexIds))

\* the number of IndexNodes in the lists retrieved so far
RECURSIVE IndexNodesRetrievedFrom(_)
IndexNodesRetrievedFrom(k) ==
    IF k > Len(calls) THEN 0
    ELSE (IF calls[k].op = "retrieve"
          THEN Cardinality({i \in 1..Len(calls[k].nodes) :
                               calls[k].nodes[i].kind = "IndexNode"})
          ELSE 0) + IndexNodesRetrievedFrom(k + 1)

C24_AcyclicQueryTerminates ==
    (graph = "tree" /\ recursive)
    => /\ calls # <<>> => calls[1].op = "query_index" /\ calls[1].level = 0
       /\ \A d \in 1..Len(stack) : stack[d].level = d - 1
       /\ \A k \in 1..Len(calls) : calls[k].level <= LongestPath
       /\ LongestPath < MaxLevel
       /\ (calls # <<>> /\ ~ENABLED GraphNext) => GraphDone
       /\ GraphDone => Cardinality(SynthPositions) = 1 + IndexNodesRetrievedFrom(1)

C24_RecursiveQueryReturns ==
    /\ []C24_AcyclicQueryTerminates
    /\ (graph = "tree" /\ recursive) => <>GraphDone

\* a finished query of the tree that went down to the leaf through mid
C24_Witness ==
    /\ graph = "tree"
    /\ recursive
    /\ GraphDone
    /\ \E k \in SynthPositions : calls[k].level = 2
    /\ Cardinality(SynthPositions) >= 3

(***************************************************************************)
(* C25: the node postprocessors given to the engine are applied to the     *)
(* nodes retrieved at every level before they are resolved and             *)
(* synthesized: the list synthesized at a level has one node for each      *)
(* retrieved node the postprocessors keep, and none for a node they drop.  *)
(***************************************************************************)
\* postprocessor.postprocess_nodes(nodes) of the cutoff postprocessor
RECURSIVE PostprocessNodes(_, _)
PostprocessNodes(postprocessor, nodes) ==
    IF nodes = <<>> THEN <<>>
    ELSE (IF Head(nodes).score >= 2 THEN <<Head(nodes)>> ELSE <<>>)
         \o PostprocessNodes(postprocessor, Tail(nodes))

\* for postprocessor in postprocessors: nodes = postprocessor.postprocess_nodes(nodes)
RECURSIVE ApplyNodePostprocessors(_, _)
ApplyNodePostprocessors(postprocessors, nodes) ==
    IF postprocessors = <<>> THEN nodes
    ELSE ApplyNodePostprocessors(Tail(postprocessors),
                                 PostprocessNodes(Head(postprocessors), nodes))

C25_PostprocessorsAppliedAtEveryLevel ==
    \A k \in SynthPositions :
        LET kept == ApplyNodePostprocessors(node_postprocessors, RetrievedAt(k))
        IN /\ Len(calls[k].nodes) = Len(kept)
           /\ \A i \in 1..Len(kept) : calls[k].nodes[i].score = kept[i].score

(***************************************************************************)
(* C26: at every level _query_index retrieves with the custom retriever of *)
(* index_id when index_id is a key of custom_retrievers and with the       *)
(* index's own retriever otherwise, for child indices as for the root.     *)
(***************************************************************************)
C26_CustomRetrieverAtEveryLevel ==
    \A k \in RetrievePositions :
        IF calls[k].index_id \in custom_retrievers
        THEN /\ calls[k].retriever = "custom"
             /\ Range(calls[k].nodes) \subseteq CustomContents(calls[k].index_id)
        ELSE /\ calls[k].retriever = "default"
             /\ Range(calls[k].nodes) \subseteq IndexContents(graph, calls[k].index_id)

\* the custom retriever of a child index used below the root
C26_Witness ==
    \E k \in RetrievePositions :
        /\ calls[k].level >= 1
        /\ calls[k].index_id \in custom_retrievers
        /\ calls[k].retriever = "custom"
        /\ calls[k].nodes # <<>>

(***************************************************************************)
(* DiffPrivateSimpleDatasetPack.agenerate_dp_synthetic_example             *)
(* One call of the coroutine is followed from await to await.  The label   *)
(* is one of the dataset's labels and num_samples_per_split has its        *)
(* default, 1.  The completion calls themselves do not raise.              *)
(***************************************************************************)
STOP_TOKENS == {"<|endoftext|>", " END", "<|end|>"}

\* the tokens the noisy distribution can have as its mode
TokenUniverse == {"x", " END"}

\* _split_dataset: partition i is indexes[i::num_splits]; random.sample raises
\* ValueError when a partition has fewer than num_samples_per_split examples
SplitDataset(size, n) ==
    IF size \div n < 1 THEN [error |-> "ValueError", splits |-> 0]
    ELSE [error |-> "", splits |-> n]

\* the size of the asyncio.gather over the split tasks: one task per split
GatherSplitTasks(n) == [i \in 1..n |-> "scheduled"]

\* the number of per-split completion calls sent and not yet answered
InFlight == Cardinality({i \in 1..Len(split_tasks) : split_tasks[i] = "in_flight"})

DiffPrivateInit ==
    /\ num_splits \in 1..MaxSplits
    /\ t_max \in 1..MaxTMax
    /\ dataset_size \in 1..MaxExamples
    /\ dp_pc = "idle"
    /\ iteration = 0
    /\ split_tasks = <<>>
    /\ synthetic_example = <<>>
    /\ dp_error = ""

DiffPrivateIdle ==
    /\ num_splits = 1
    /\ t_max = 1
    /\ dataset_size = 1
    /\ dp_pc = "idle"
    /\ iteration = 0
    /\ split_tasks = <<>>
    /\ synthetic_example = <<>>
    /\ dp_error = ""

\* the for loop goes to its next round, or ends and the example is returned
NextRound ==
    IF iteration < t_max
    THEN /\ iteration' = iteration + 1
         /\ dp_pc' = "public"
    ELSE /\ dp_pc' = "returned"
         /\ UNCHANGED iteration

\* the call: the loop's first round awaits the public completion
AGenerate ==
    /\ dp_pc = "idle"
    /\ NextRound
    /\ UNCHANGED <<dpArgs, split_tasks, synthetic_example, dp_error>>
    /\ UNCHANGED notDiffPrivate

\* the public completion has no logprobs: IndexError, continue
PublicEmpty ==
    /\ dp_pc = "public"
    /\ NextRound
    /\ UNCHANGED <<dpArgs, split_tasks, synthetic_example, dp_error>>
    /\ UNCHANGED notDiffPrivate

\* the public completion is there: the dataset is split and one completion
\* coroutine per split is handed to asyncio.gather
PublicCompletes ==
    /\ dp_pc = "public"
    /\ LET split == SplitDataset(dataset_size, num_splits) IN
          IF split.error # ""
          THEN /\ dp_pc' = "raised"
               /\ dp_error' = split.error
               /\ UNCHANGED split_tasks
          ELSE /\ dp_pc' = "gather"
               /\ split_tasks' = GatherSplitTasks(split.splits)
               /\ UNCHANGED dp_error
    /\ UNCHANGED <<dpArgs, iteration, synthetic_example>>
    /\ UNCHANGED notDiffPrivate

\* the event loop runs the tasks gather made, in the order of their creation,
\* each up to the await of its request
SplitStart(i) ==
    /\ dp_pc = "gather"
    /\ split_tasks[i] = "scheduled"
    /\ \A j \in 1..(i - 1) : split_tasks[j] # "scheduled"
    /\ split_tasks' = [split_tasks EXCEPT ![i] = "in_flight"]
    /\ UNCHANGED <<dpArgs, dp_pc, iteration, synthetic_example, dp_error>>
    /\ UNCHANGED notDiffPrivate

\* a response arrives: the loop polls for input once no task is ready to run
SplitComplete(i) ==
    /\ dp_pc = "gather"
    /\ \A j \in 1..Len(split_tasks) : split_tasks[j] # "scheduled"
    /\ split_tasks[i] = "in_flight"
    /\ split_tasks' = [split_tasks EXCEPT ![i] = "done"]
    /\ UNCHANGED <<dpArgs, dp_pc, iteration, synthetic_example, dp_error>>
    /\ UNCHANGED notDiffPrivate

\* gather returns the responses; the next token is the mode of the noisy
\* merged distribution: a stop token ends the loop, another one is appended
GatherReturns(next_token) ==
    /\ dp_pc = "gather"
    /\ \A j \in 1..Len(split_tasks) : split_tasks[j] = "done"
    /\ split_tasks' = <<>>
    /\ IF next_token \in STOP_TOKENS
       THEN /\ dp_pc' = "returned"
            /\ UNCHANGED <<iteration, synthetic_example>>
       ELSE /\ synthetic_example' = Append(synthetic_example, next_token)
            /\ NextRound
    /\ UNCHANGED <<dpArgs, dp_error>>
    /\ UNCHANGED notDiffPrivate

SplitStarts == \E i \in 1..Len(split_tasks) : SplitStart(i)
SplitCompletes == \E i \in 1..Len(split_tasks) : SplitComplete(i)
GatherReturnsToken == \E next_token \in TokenUniverse : GatherReturns(next_token)

DiffPrivateNext ==
    \/ AGenerate
    \/ PublicEmpty
    \/ PublicCompletes
    \/ SplitStarts
    \/ SplitCompletes
    \/ GatherReturnsToken

(***************************************************************************)
(* C27: during agenerate_dp_synthetic_example the number of per-split      *)
(* completion calls in flight at the same time never exceeds the worker    *)
(* count the caller wants as a cap, whatever num_splits is.                *)
(***************************************************************************)
C27_InFlightWithinWorkerCap ==
    \A num_workers \in 1..MaxSplits : InFlight <= num_workers

\* what the program keeps to: all the splits of a round in flight together
C27_InFlightWithinNumSplits ==
    /\ InFlight <= num_splits
    /\ (dp_pc = "gather" /\ \A j \in 1..Len(split_tasks) : split_tasks[j] # "scheduled")
       => Len(split_tasks) = num_splits

(***************************************************************************)
(* CondenseQuestionChatEngine                                              *)
(***************************************************************************)
Messages == {"m1", "m2"}

\* str(response) of the query engine's responses
ResponseTexts == {"r1", "r2"}

\* the chat_history lists an engine is built with; None and [] both give []
ChatHistories == {<<>>, <<<<"m0", "r0">>>>}

\* faulty variant: the pair is put in front of the history
RecordResponseFirst(history, message, response) == <<<<message, response>>>> \o history

\* self._chat_history.append((message, str(response)))
RecordResponse(history, message, response) == Append(history, <<message, response>>)

\* one call: the history handed to the condense step, and how the call ended
ChatCall(op, message, history, outcome, response) ==
    [op |-> op, message |-> message, history |-> history, outcome |-> outcome,
     response |-> response]

ChatInit ==
    /\ initial_chat_history \in ChatHistories
    /\ chat_history = initial_chat_history
    /\ chat_calls = <<>>
    /\ chat_error = ""

ChatIdle ==
    /\ initial_chat_history = <<>>
    /\ chat_history = <<>>
    /\ chat_calls = <<>>
    /\ chat_error = ""

\* chat: condense, query, record
Chat(message, response) ==
    /\ Len(chat_calls) < MaxChatCalls
    /\ chat_history' = RecordResponse(chat_history, message, response)
    /\ chat_calls' = Append(chat_calls,
                            ChatCall("chat", message, chat_history, "returned", response))
    /\ chat_error' = ""
    /\ UNCHANGED initial_chat_history
    /\ UNCHANGED notChat

\* chat: llm_predictor.predict raises in _condense_question
ChatCondenseRaises(message) ==
    /\ Len(chat_calls) < MaxChatCalls
    /\ chat_calls' = Append(chat_calls,
                            ChatCall("chat", message, chat_history, "condense raised", ""))
    /\ chat_error' = "Exception"
    /\ UNCHANGED <<initial_chat_history, chat_history>>
    /\ UNCHANGED notChat

\* chat: self._query_engine.query raises
ChatQueryRaises(message) ==
    /\ Len(chat_calls) < MaxChatCalls
    /\ chat_calls' = Append(chat_calls,
                            ChatCall("chat", message, chat_history, "query raised", ""))
    /\ chat_error' = "Exception"
    /\ UNCHANGED <<initial_chat_history, chat_history>>
    /\ UNCHANGED notChat

\* achat: _acondense_question is a plain function that unpacks what apredict
\* returns, and achat awaits its result.  Unpacking a coroutine raises
\* TypeError, and so does awaiting the text a (text, prompt) pair would give.
Achat(message) ==
    /\ Len(chat_calls) < MaxChatCalls
    /\ chat_calls' = Append(chat_calls,
                            ChatCall("achat", message, chat_history, "condense raised", ""))
    /\ chat_error' = "TypeError"
    /\ UNCHANGED <<initial_chat_history, chat_history>>
    /\ UNCHANGED notChat

\* reset: self._chat_history = []
Reset ==
    /\ Len(chat_calls) < MaxChatCalls
    /\ chat_history' = <<>>
    /\ chat_calls' = Append(chat_calls, ChatCall("reset", "", chat_history, "returned", ""))
    /\ chat_error' = ""
    /\ UNCHANGED initial_chat_history
    /\ UNCHANGED notChat

ChatReturns == \E message \in Messages, response \in ResponseTexts : Chat(message, response)
ChatRaisesInCondense == \E message \in Messages : ChatCondenseRaises(message)
ChatRaisesInQuery == \E message \in Messages : ChatQueryRaises(message)
AchatRaises == \E message \in Messages : Achat(message)

ChatNext ==
    \/ ChatReturns
    \/ ChatRaisesInCondense
    \/ ChatRaisesInQuery
    \/ AchatRaises
    \/ Reset

(***************************************************************************)
(* C28: load_from_dict does not modify the dict it is given: after a load  *)
(* the dict is as serialize_to_dict returned it, and every load of it with *)
(* the same registry, the first or a later one, ends as the load of the    *)
(* untouched dict does: the same error or an equal store with every entry  *)
(* of the same type.                                                       *)
(***************************************************************************)
\* the load of the dict as serialize_to_dict returned it
LoadOfSerialized(type_to_struct) ==
    LET docs_dict == SerializeToDict(dumped.of)
    IN LoadItems(docs_dict, type_to_struct,
                 CHOOSE order \in ItemOrders(docs_dict.docs) : TRUE, EmptyStore)

C28_LoadLeavesDictUnmodified ==
    ds_op = "load_from_dict"
    => /\ dumped.dict = SerializeToDict(dumped.of)
       /\ ds_error = LoadOfSerialized(ds_args.type_to_struct).error
       /\ loaded = LoadOfSerialized(ds_args.type_to_struct).store

\* the part about the given dict alone
C28_DictAsSerialized ==
    ds_op = "load_from_dict" => dumped.dict = SerializeToDict(dumped.of)

\* the part about the two loads alone
C28_SecondLoadEqualsFirst ==
    (ds_op = "load_from_dict" /\ dumped.loads = 2)
    => /\ ds_error = LoadOfSerialized(ds_args.type_to_struct).error
       /\ loaded = LoadOfSerialized(ds_args.type_to_struct).store

(***************************************************************************)
(* C29: add_documents is all-or-nothing: when it raises ValueError for a   *)
(* document without an id (generate_id false), no document of the call has *)
(* been stored and the store is as it was before the call.                 *)
(***************************************************************************)
C29_AddDocumentsAllOrNothing ==
    (ds_op = "add_documents" /\ ds_error = "ValueError") => docs = docs_before

(***************************************************************************)
(* C30: after any sequence of chat, achat and reset calls the chat history *)
(* is exactly the list of (message, response text) pairs of the chats      *)
(* completed since the last reset, in call order; each chat condenses its  *)
(* question from the history as it was before its own pair is appended,    *)
(* and a chat whose condense or query step raises leaves the history       *)
(* unchanged.                                                              *)
(***************************************************************************)
\* the position of the last reset among the first n calls (0 when none)
LastReset(n) ==
    LET resets == {k \in 1..n : chat_calls[k].op = "reset"}
    IN IF resets = {} THEN 0 ELSE CHOOSE k \in resets : \A o \in resets : o <= k

\* the pairs of the chats among calls from..to that returned, in call order
RECURSIVE CompletedPairs(_, _)
CompletedPairs(from, to) ==
    IF from > to THEN <<>>
    ELSE (IF chat_calls[from].op # "reset" /\ chat_calls[from].outcome = "returned"
          THEN <<<<chat_calls[from].message, chat_calls[from].response>>>>
          ELSE <<>>) \o CompletedPairs(from + 1, to)

\* the pairs of the chats completed since the last reset, after n calls
CompletedSinceReset(n) == CompletedPairs(LastReset(n) + 1, n)

SeedHistory(n) == IF LastReset(n) = 0 THEN initial_chat_history ELSE <<>>

vars == <<geVars, qrVars, phVars, dsVars, qgVars, raVars, dpVars, ceVars>>

InitGraph == GraphInit /\ RunnerIdle /\ PromptIdle /\ StoreIdle /\ QueryGraphIdle /\ ReflectionIdle
    /\ DiffPrivateIdle /\ ChatIdle
SpecGraph == InitGraph /\ [][GraphNext]_vars
\* the interpreter runs a started query on: the engine's next step is taken
SpecGraphFair == SpecGraph /\ WF_vars(GraphNext)

InitRunner == RunnerInit /\ GraphIdle /\ PromptIdle /\ StoreIdle /\ QueryGraphIdle /\ ReflectionIdle
    /\ DiffPrivateIdle /\ ChatIdle
SpecRunner == InitRunner /\ [][RunnerNext]_vars

InitPrompt == PromptInit /\ GraphIdle /\ RunnerIdle /\ StoreIdle /\ QueryGraphIdle /\ ReflectionIdle
    /\ DiffPrivateIdle /\ ChatIdle
SpecPrompt == InitPrompt /\ [][PromptNext]_vars

InitStore == StoreInit /\ GraphIdle /\ RunnerIdle /\ PromptIdle /\ QueryGraphIdle /\ ReflectionIdle
    /\ DiffPrivateIdle /\ ChatIdle
SpecStore == InitStore /\ [][StoreNext]_vars

InitQueryGraph == QueryGraphInit /\ GraphIdle /\ RunnerIdle /\ PromptIdle /\ StoreIdle /\ ReflectionIdle
    /\ DiffPrivateIdle /\ ChatIdle
SpecQueryGraph == InitQueryGraph /\ [][QueryGraphNext]_vars

InitReflection ==
    ReflectionInit /\ GraphIdle /\ RunnerIdle /\ PromptIdle /\ StoreIdle /\ QueryGraphIdle
    /\ DiffPrivateIdle /\ ChatIdle
SpecReflection == InitReflection /\ [][ReflectionNext]_vars

InitDiffPrivate ==
    DiffPrivateInit /\ GraphIdle /\ RunnerIdle /\ PromptIdle /\ StoreIdle /\ QueryGraphIdle
    /\ ReflectionIdle /\ ChatIdle
SpecDiffPrivate == InitDiffPrivate /\ [][DiffPrivateNext]_vars

InitChat ==
    ChatInit /\ GraphIdle /\ RunnerIdle /\ PromptIdle /\ StoreIdle /\ QueryGraphIdle
    /\ ReflectionIdle /\ DiffPrivateIdle
SpecChat == InitChat /\ [][ChatNext]_vars
====
